---- MODULE Spec2Model ----
(***************************************************************************)
(* Model of the VidFingerprint matching core: the relational fingerprint   *)
(* store (DatabaseManager), the worker pool (ThreadPool) and the matcher   *)
(* service with its LRU result cache (MatcherService).                     *)
(*                                                                         *)
(* The store is modelled after a successful initialize(): three tables     *)
(* with the columns and constraints of the schema in database_manager.cpp  *)
(* and the three prepared statements of prepareStatements().               *)
(*                                                                         *)
(* Content ids are the integers 1..NumIds, standing for the strings        *)
(* "A" < "B" < "C" ... in lexicographic order (the order std::map iterates *)
(* in).  Characters of the hex digest are the integers 0..15.  Similarity  *)
(* scores and thresholds are exact ratios [num, den]; for the small        *)
(* integers of the model the IEEE-754 quotient compares as the ratio does. *)
(***************************************************************************)
EXTENDS Integers, Sequences, FiniteSets, Bags, TLC

\* ------------------------------------------------------------------ bounds
MaxLen == 2          \* longest hash sequence of a fingerprint
NumHashes == 2       \* distinct frame-hash values
NumIds == 3          \* distinct content ids
MaxStores == 2       \* storeFingerprint calls in the store specification
MaxResultsArg == 2   \* largest max_results passed to findMatches directly
MaxRequests == 3     \* match requests issued in the service specification
MaxCacheRequests == 5  \* match requests issued in the cache specification
MaxBatch == 2        \* longest request vector passed to matchBatch
MaxCacheSize == 2    \* largest configured cache_size
NumWorkers == 2      \* configured num_threads
MaxIngest == 1       \* storeFingerprint calls in the service specification
MaxPoolRequests == 4 \* requests accepted by the pool in the pool specification
MaxFailRequests == 3 \* match requests issued over the failing engine
MaxSeqIngest == 2    \* storeFingerprint calls of the synchronous client
MaxSeqRequests == 2  \* match requests of the synchronous client
MaxAnyRequests == 2  \* match requests of the client that sends any request
MaxDestroyRequests == 2  \* requests left un-awaited when the service is destroyed
MaxFrames == 2       \* most frames in a sample buffer passed to generate
MaxCount == 2        \* increments of one counter, samples of one operation
MaxTxnStores == 2    \* storeFingerprint calls made beside a querying client
MaxStoreCalls == 3   \* most storeFingerprint calls of any one client
MaxLockRequests == 3 \* match requests issued beside getStats and clearCache calls

\* --------------------------------------------------------- program constants
HEX_WIDTH == 8            \* std::setw(8): hex characters per frame hash
KEY_LENGTH == 64          \* cache key: first 64 characters of the digest
DEFAULT_NUM_THREADS == 8
DEFAULT_CACHE_SIZE == 10000
DEFAULT_MAX_RESULTS == 10

\* ------------------------------------------------------------ input domains
HashValues == 0..(NumHashes - 1)
ContentIds == 1..NumIds
Titles == {"t1", "t2"}
Sources == {"src"}
CreatedAts == {1234567890}
Durations == {3000}

Min(a, b) == IF a <= b THEN a ELSE b
Max(a, b) == IF a >= b THEN a ELSE b

HashSeqs == UNION { [1..n -> HashValues] : n \in 0..MaxLen }

\* ---------------------------------------------------------------- ratios
Ratio(n, d) == [num |-> n, den |-> d]
RatioGE(a, b) == a.num * b.den >= b.num * a.den
RatioGT(a, b) == a.num * b.den > b.num * a.den
RatioEQ(a, b) == a.num * b.den = b.num * a.den
DEFAULT_MIN_SIMILARITY == Ratio(7, 10)
MinSimilarities == {Ratio(0, 1), Ratio(1, 2), Ratio(1, 1)}

\* ------------------------------------------------------------ fingerprints
\* the hex digits of n, most significant first
RECURSIVE HexDigits(_)
HexDigits(n) == IF n < 16 THEN <<n>> ELSE Append(HexDigits(n \div 16), n % 16)

\* ss << std::hex << std::setw(8) << std::setfill('0') << hash
HexWord(h) ==
    LET d == HexDigits(h)
    IN  IF Len(d) >= HEX_WIDTH THEN d
        ELSE [i \in 1..(HEX_WIDTH - Len(d)) |-> 0] \o d

\* the digest of a hash sequence: the concatenated hex words
RECURSIVE RawHash(_)
RawHash(hs) == IF hs = <<>> THEN <<>> ELSE HexWord(Head(hs)) \o RawHash(Tail(hs))

\* a fingerprint as generate() returns it
Fingerprint(hs, d) == [hash_values |-> hs, duration_ms |-> d, raw_hash |-> RawHash(hs)]

Fingerprints == { Fingerprint(hs, d) : hs \in HashSeqs, d \in Durations }

Metadatas == [title : Titles, source : Sources, created_at : CreatedAts]

VARIABLES
    content,               \* table content: content_id -> row
    fingerprints,          \* table fingerprints: bag of posting rows
    fingerprint_metadata,  \* table fingerprint_metadata: content_id -> row
    stores,                \* number of storeFingerprint calls made
    last,                  \* the caller's current call and what it returned
    config_,               \* MatcherService::Config
    cache_,                \* cache key -> cached result list
    cache_lru_,            \* keys, most recently used first
    total_requests_,
    successful_matches_,
    cache_hits_,
    cache_misses_,
    latencies_,            \* number of samples in the service's latency vector
    tasks_,                \* ThreadPool queue: indices into futures
    futures,               \* one entry per submitted task: request, shared state
    frame,                 \* per thread: the processMatch invocation it executes
    batch,                 \* the matchBatch call in progress on the caller
    submitted,             \* requests handed to match, matchAsync and matchBatch
    stop_,                 \* ThreadPool::stop_
    shutdown,              \* ~ThreadPool on the owner's thread: none, joining, done
    counters_,             \* MetricsCollector::counters_: metric -> count
    collector_latencies_,  \* MetricsCollector::latencies_: operation -> number of samples
    gauges_,               \* MetricsCollector::gauges_: metric -> value
    destroyed,             \* ~MatcherService has destroyed the cache and the statistics
    db_mutex_,             \* DatabaseManager::db_mutex_: the thread holding it, or NoThread
    txn,                   \* the storeFingerprint call in progress: its transaction
    prev_features_,        \* FingerprintGenerator::prev_features_
    cache_mutex_,          \* MatcherService::cache_mutex_: the thread holding it
    stats_mutex_,          \* MatcherService::stats_mutex_: the thread holding it
    mutex_                 \* MetricsCollector::mutex_: the thread holding it

dbVars == <<content, fingerprints, fingerprint_metadata, db_mutex_, txn>>
cacheVars == <<cache_, cache_lru_>>
statVars == <<total_requests_, successful_matches_, cache_hits_, cache_misses_, latencies_>>
poolVars == <<tasks_, futures>>
lifeVars == <<stop_, shutdown, destroyed>>
genVars == <<prev_features_>>
lockVars == <<cache_mutex_, stats_mutex_, mutex_>>
metricVars == <<collector_latencies_, gauges_>>
serviceVars == <<config_, submitted, lifeVars, genVars, lockVars, metricVars, counters_, cacheVars, statVars, poolVars, frame, batch>>

vars == <<dbVars, stores, last, serviceVars>>

\* db_mutex_ when no thread holds it, and the thread that calls storeFingerprint
UNLOCKED == "unlocked"
INGEST_THREAD == "ingest"

\* the name under which a mutex records the thread that holds it: the
\* caller's thread is thread 0, the workers are 1 and 2
Holder(t) == IF t = 0 THEN "caller" ELSE "worker " \o ToString(t)

\* a lock that is handed out whoever holds it
DbMutexFree_Always == TRUE

\* std::lock_guard<std::mutex> lock(db_mutex_) returns once no thread holds it
DbMutexFree == db_mutex_ = UNLOCKED

\* no storeFingerprint call is in progress
NoTxn == [pc |-> "idle"]

\* FingerprintGenerator::NUM_BANDS, and prev_features_ after fill(0.0f)
NUM_BANDS == 33
Bands == 0..(NUM_BANDS - 1)
ZeroFeatures == [b \in Bands |-> 0]

\* MetricsCollector::recordLatency: latencies_[operation].push_back(latency_us)
recordLatency(lat, operation) ==
    [o \in DOMAIN lat \cup {operation} |->
        IF o = operation THEN (IF o \in DOMAIN lat THEN lat[o] ELSE 0) + 1 ELSE lat[o]]

\* ------------------------------------------------------------------- store
PostingRow(cid, h, pos) == [content_id |-> cid, hash_value |-> h, position |-> pos]

\* the posting rows one storeFingerprint call inserts
NewPostings(cid, fp) ==
    LET rows == { PostingRow(cid, fp.hash_values[i], i - 1) : i \in 1..Len(fp.hash_values) }
    IN  [r \in rows |-> 1]

\* INSERT OR IGNORE INTO content: the UNIQUE content_id keeps the first row
InsertContent(tbl, cid, fp, md) ==
    IF cid \in DOMAIN tbl THEN tbl
    ELSE [c \in DOMAIN tbl \cup {cid} |->
            IF c = cid
            THEN [id |-> Cardinality(DOMAIN tbl) + 1, content_id |-> cid,
                  title |-> md.title, source |-> md.source,
                  duration_ms |-> fp.duration_ms, created_at |-> md.created_at]
            ELSE tbl[c]]

\* INSERT INTO fingerprints, once per hash of the fingerprint
InsertFingerprints(tbl, cid, fp) == tbl (+) NewPostings(cid, fp)

\* INSERT OR REPLACE INTO fingerprint_metadata
InsertFingerprintMetadata(tbl, cid, fp) ==
    [c \in DOMAIN tbl \cup {cid} |->
        IF c = cid
        THEN [raw_hash |-> fp.raw_hash, num_hashes |-> Len(fp.hash_values)]
        ELSE tbl[c]]

\* getStats(): SELECT COUNT(*) of the two tables
GetStats == [total_fingerprints |-> BagCardinality(fingerprints),
             total_content |-> Cardinality(DOMAIN content)]

\* getContentById
GetContentById(cid) ==
    IF cid \in DOMAIN content THEN [has_value |-> TRUE, value |-> content[cid]]
    ELSE [has_value |-> FALSE]

storeFingerprint(cid, fp, md) ==
    /\ content' = InsertContent(content, cid, fp, md)
    /\ fingerprints' = InsertFingerprints(fingerprints, cid, fp)
    /\ fingerprint_metadata' = InsertFingerprintMetadata(fingerprint_metadata, cid, fp)

\* ------------------------------------------------------------- findMatches
\* COUNT(*) of the postings of content cid with hash h, joined with content
MatchCount(cid, h) ==
    LET rows == { r \in BagToSet(fingerprints) :
                    r.content_id = cid /\ r.hash_value = h /\ cid \in DOMAIN content }
        RECURSIVE Sum(_)
        Sum(S) == IF S = {} THEN 0
                  ELSE LET r == CHOOSE x \in S : TRUE
                       IN  CopiesIn(r, fingerprints) + Sum(S \ {r})
    IN  Sum(rows)

\* the groups of the prepared query for hash h: one per content with a posting
QueryGroups(h) == { c \in ContentIds : MatchCount(c, h) > 0 }

\* ORDER BY match_count DESC LIMIT limit: the row sets the query may return
\* (the order among equal counts is not fixed by the query)
QueryRows(h, limit) ==
    LET G == QueryGroups(h)
        n == Min(limit, Cardinality(G))
    IN  { S \in SUBSET G :
            /\ Cardinality(S) = n
            /\ \A c \in S, d \in G \ S : MatchCount(c, h) >= MatchCount(d, h) }

\* candidate_matches after the loop over the query hashes: the possible maps
RECURSIVE CandidateMatches(_, _, _)
CandidateMatches(hs, limit, acc) ==
    IF hs = <<>> THEN {acc}
    ELSE UNION { CandidateMatches(Tail(hs), limit,
                    [c \in ContentIds |->
                        IF c \in S THEN acc[c] + MatchCount(c, Head(hs)) ELSE acc[c]])
                 : S \in QueryRows(Head(hs), limit) }

\* similarity of one candidate
Similarity(fp, cid, match_count) ==
    Ratio(match_count,
          Max(Len(fp.hash_values), Len(fingerprint_metadata[cid].raw_hash) \div 8))

\* a floor that only drops candidates without any match
PassesThreshold_AnyMatch(similarity, min_similarity) == similarity.num > 0

\* if (similarity >= min_similarity)
PassesThreshold(similarity, min_similarity) == RatioGE(similarity, min_similarity)

\* the results vector before sorting: candidates in std::map (ascending) order
RECURSIVE ScoreCandidates(_, _, _, _)
ScoreCandidates(fp, min_similarity, cand, from) ==
    IF from > NumIds THEN <<>>
    ELSE LET rest == ScoreCandidates(fp, min_similarity, cand, from + 1)
         IN  IF /\ cand[from] > 0
                /\ from \in DOMAIN fingerprint_metadata
                /\ PassesThreshold(Similarity(fp, from, cand[from]), min_similarity)
                /\ GetContentById(from).has_value
             THEN <<[metadata |-> GetContentById(from).value,
                     similarity_score |-> Similarity(fp, from, cand[from]),
                     matched_segments |-> cand[from]]>> \o rest
             ELSE rest

\* the orders std::sort may leave the results in: any arrangement in which no
\* result is followed by one with a greater score
SortOutcomes(rs) ==
    LET n == Len(rs)
        perms == { f \in [1..n -> 1..n] : \A j \in 1..n : \E i \in 1..n : f[i] = j }
    IN  { p \in { [i \in 1..n |-> rs[f[i]]] : f \in perms } :
            \A i \in 1..(n - 1) :
                ~ RatioGT(p[i + 1].similarity_score, p[i].similarity_score) }

\* a resize that keeps one result too many
Truncate_OneMore(rs, max_results) == SubSeq(rs, 1, Min(Len(rs), max_results + 1))

\* results.resize(max_results)
Truncate(rs, max_results) == SubSeq(rs, 1, Min(Len(rs), max_results))

\* the result lists findMatches may return
findMatches(fp, min_similarity, max_results) ==
    { Truncate(p, max_results) :
        p \in UNION { SortOutcomes(ScoreCandidates(fp, min_similarity, cand, 1)) :
                        cand \in CandidateMatches(fp.hash_values, max_results * 2,
                                                  [c \in ContentIds |-> 0]) } }

\* ------------------------------------------------------- store operations
\* A client of the store calls one operation at a time (every public operation
\* runs under db_mutex_); `last` holds the call and what it returned until the
\* client takes the result.
Idle == [op |-> "idle"]

StoreFingerprint(cid, fp, md) ==
    /\ last = Idle
    /\ stores < MaxStoreCalls
    /\ DbMutexFree
    /\ storeFingerprint(cid, fp, md)
    /\ stores' = stores + 1
    /\ last' = [op |-> "storeFingerprint", content_id |-> cid, fingerprint |-> fp,
                metadata |-> md, ret |-> TRUE]
    /\ UNCHANGED <<db_mutex_, txn, serviceVars>>

FindMatches(fp, min_similarity, max_results) ==
    /\ last = Idle
    /\ DbMutexFree
    /\ \E rs \in findMatches(fp, min_similarity, max_results) :
          last' = [op |-> "findMatches", fingerprint |-> fp,
                   min_similarity |-> min_similarity, max_results |-> max_results,
                   ret |-> rs]
    /\ UNCHANGED <<dbVars, stores, serviceVars>>

GetStatsCall ==
    /\ last = Idle
    /\ DbMutexFree
    /\ last' = [op |-> "getStats", ret |-> GetStats]
    /\ UNCHANGED <<dbVars, stores, serviceVars>>

\* the client takes the returned value
Returned(call) ==
    \/ call.op \in {"storeFingerprint", "findMatches", "getStats", "getContentById",
                   "matchAsync", "get",
                   "generate", "calculateSimilarity", "getCounter", "getLatencyStats"}
    \/ call.op \in {"match", "matchBatch", "getServiceStats", "clearCache", "getAllMetrics"}
       /\ call.done

Return ==
    /\ Returned(last)
    /\ last' = Idle
    /\ UNCHANGED <<dbVars, stores, serviceVars>>

\* ------------------------------------------------------------- the service
Workers == 1..config_.num_threads
Caller == 0
Threads == (1..NumWorkers) \cup {Caller}

\* Config{} as the header declares it
DefaultConfig ==
    [num_threads |-> DEFAULT_NUM_THREADS, cache_size |-> DEFAULT_CACHE_SIZE,
     enable_caching |-> TRUE, default_min_similarity |-> DEFAULT_MIN_SIMILARITY,
     default_max_results |-> DEFAULT_MAX_RESULTS]

Configs ==
    { [DefaultConfig EXCEPT !.num_threads = NumWorkers, !.cache_size = cs,
                            !.enable_caching = ec] :
        cs \in 1..MaxCacheSize, ec \in BOOLEAN }

\* one worker, caching on: the cache under two threads (the worker and a caller)
CacheConfigs ==
    { [DefaultConfig EXCEPT !.num_threads = 1, !.cache_size = cs] : cs \in 1..MaxCacheSize }

\* The requests of the service specification: the n-th request issued carries
\* the request id n; it either states its floor and cap or leaves both 0 to
\* take the configured defaults.
RequestFingerprints == { Fingerprint(hs, d) : hs \in {<<0, 0>>, <<0, 1>>}, d \in Durations }
RequestBodies ==
    { [fingerprint |-> Fingerprint(<<0, 0>>, 3000), min_similarity |-> Ratio(1, 2), max_results |-> 1],
      [fingerprint |-> Fingerprint(<<0, 1>>, 3000), min_similarity |-> Ratio(1, 2), max_results |-> 1],
      [fingerprint |-> Fingerprint(<<0, 1>>, 3000), min_similarity |-> Ratio(0, 1), max_results |-> 0] }
MatchRequest(id, body) ==
    [request_id |-> id, fingerprint |-> body.fingerprint,
     min_similarity |-> body.min_similarity, max_results |-> body.max_results]
CacheRequestBodies ==
    { [fingerprint |-> Fingerprint(hs, d), min_similarity |-> Ratio(0, 1), max_results |-> 0] :
        hs \in {<<0, 0>>, <<0, 1>>, <<1, 1>>}, d \in Durations }
IngestIds == {1}
IngestMetadatas == { md \in Metadatas : md.title = "t1" }

NoFrame == [pc |-> "idle"]

\* generateCacheKey
generateCacheKey(fp) ==
    IF Len(fp.raw_hash) <= KEY_LENGTH THEN fp.raw_hash
    ELSE SubSeq(fp.raw_hash, 1, KEY_LENGTH)

\* std::list::remove: every node equal to key
ListRemove(lst, key) == SelectSeq(lst, LAMBDA k : k # key)

\* checkCache on a hit: the key moves to the front of the LRU list
checkCache(key) ==
    /\ cache_lru_' = <<key>> \o ListRemove(cache_lru_, key)
    /\ UNCHANGED cache_

\* updateCache finds the map full while the LRU list is empty: back() and
\* pop_back() of an empty std::list are undefined
UpdateUndefined ==
    /\ Cardinality(DOMAIN cache_) >= config_.cache_size
    /\ cache_lru_ = <<>>

\* an updateCache that inserts without evicting
updateCache_NoEvict(key, results) ==
    /\ cache_' = [k \in DOMAIN cache_ \cup {key} |-> IF k = key THEN results ELSE cache_[k]]
    /\ cache_lru_' = <<key>> \o cache_lru_

\* updateCache: evict the back of the LRU list when the map is full, then
\* cache_[key] = entry and push the key to the front (on an empty list the
\* eviction, where the build survives it, removes no key)
updateCache(key, results) ==
    LET full == Cardinality(DOMAIN cache_) >= config_.cache_size /\ cache_lru_ # <<>>
        lru_key == cache_lru_[Len(cache_lru_)]
        lru1 == IF full THEN SubSeq(cache_lru_, 1, Len(cache_lru_) - 1) ELSE cache_lru_
        keys1 == IF full THEN DOMAIN cache_ \ {lru_key} ELSE DOMAIN cache_
    IN  /\ cache_' = [k \in keys1 \cup {key} |-> IF k = key THEN results ELSE cache_[k]]
        /\ cache_lru_' = <<key>> \o lru1

\* clearCache
ClearCache ==
    /\ cache_' = <<>>
    /\ cache_lru_' = <<>>
    /\ UNCHANGED <<dbVars, stores, last, config_, submitted, lifeVars, genVars, lockVars, metricVars, counters_, statVars, poolVars, frame, batch>>

\* a response that is never stamped with the request's id
Response_Unstamped(req, matches, success) ==
    [request_id |-> 0, matches |-> matches, success |-> success, error_message |-> ""]

\* the response processMatch builds
Response(req, matches, success) ==
    [request_id |-> req.request_id, matches |-> matches, success |-> success,
     error_message |-> ""]

\* requests handed to the service so far
Issued == submitted

\* what() of the std::runtime_error ThreadPool::submit throws
POOL_STOPPED == "Cannot submit task to stopped thread pool"

\* ThreadPool::submit without the test of stop_
Submit_Unchecked(req) ==
    /\ futures' = Append(futures, [state |-> "pending", request |-> req])
    /\ tasks_' = Append(tasks_, Len(futures) + 1)
    /\ submitted' = submitted + 1

\* ThreadPool::submit: under queue_mutex_, throw when stop_ is set, else queue
\* a packaged task; its future is the new entry of futures
Submit(req) ==
    IF stop_
    THEN UNCHANGED <<futures, tasks_, submitted>>
    ELSE /\ futures' = Append(futures, [state |-> "pending", request |-> req])
         /\ tasks_' = Append(tasks_, Len(futures) + 1)
         /\ submitted' = submitted + 1

\* an entry of processMatch that does not count the request
ProcessStart_Uncounted(t, task, req) ==
    /\ total_requests_' = total_requests_
    /\ frame' = [frame EXCEPT ![t] =
                    [pc |-> IF config_.enable_caching THEN "check" ELSE "query",
                     task |-> task, request |-> req, matches |-> <<>>]]

\* processMatch, entry: response.request_id = request.request_id and
\* total_requests_.fetch_add(1)
ProcessStart(t, task, req) ==
    /\ total_requests_' = total_requests_ + 1
    /\ frame' = [frame EXCEPT ![t] =
                    [pc |-> IF config_.enable_caching THEN "check" ELSE "query",
                     task |-> task, request |-> req, matches |-> <<>>]]

\* a pop that also drops the task behind the front one
QueuePop_DropNext(q) == [task |-> Head(q), rest |-> IF Len(q) > 1 THEN Tail(Tail(q)) ELSE Tail(q)]

\* a queue that hands out the task submitted last
QueuePop_Newest(q) == [task |-> q[Len(q)], rest |-> SubSeq(q, 1, Len(q) - 1)]

\* task = std::move(tasks_.front()); tasks_.pop()
QueuePop(q) == [task |-> Head(q), rest |-> Tail(q)]

\* workerThread: under queue_mutex_, take the front task; then run it
WorkerDequeue(w) ==
    /\ frame[w].pc = "idle"
    /\ tasks_ # <<>>
    /\ tasks_' = QueuePop(tasks_).rest
    /\ ProcessStart(w, QueuePop(tasks_).task, futures[QueuePop(tasks_).task].request)
    /\ UNCHANGED <<dbVars, stores, last, config_, submitted, lifeVars, genVars, lockVars, metricVars, counters_, cacheVars, successful_matches_,
                   cache_hits_, cache_misses_, latencies_, futures, batch>>

\* a worker that returns as soon as stop_ is set, whatever is still queued
WorkerExit_Early(w) ==
    /\ frame[w].pc = "idle"
    /\ stop_
    /\ frame' = [frame EXCEPT ![w] = [pc |-> "exited"]]
    /\ UNCHANGED <<dbVars, stores, last, config_, submitted, lifeVars, genVars, lockVars, metricVars, counters_,
                   cacheVars, statVars, poolVars, batch>>

\* workerThread: return when stop_ is set and the queue is empty
WorkerExit(w) ==
    /\ frame[w].pc = "idle"
    /\ stop_
    /\ tasks_ = <<>>
    /\ frame' = [frame EXCEPT ![w] = [pc |-> "exited"]]
    /\ UNCHANGED <<dbVars, stores, last, config_, submitted, lifeVars, genVars, lockVars, metricVars, counters_,
                   cacheVars, statVars, poolVars, batch>>

\* ~ThreadPool: stop_ = true under queue_mutex_, notify_all
ShutdownBegin ==
    /\ shutdown = "none"
    /\ stop_' = TRUE
    /\ shutdown' = "joining"
    /\ UNCHANGED <<dbVars, stores, last, config_, submitted, destroyed, genVars, lockVars, metricVars,
                   counters_, cacheVars, statVars, poolVars, frame, batch>>

\* ~ThreadPool: every thread of threads_ has been joined
ShutdownEnd ==
    /\ shutdown = "joining"
    /\ \A w \in Workers : frame[w].pc = "exited"
    /\ shutdown' = "done"
    /\ UNCHANGED <<dbVars, stores, last, config_, submitted, stop_, destroyed, genVars, lockVars,
                   metricVars, counters_, cacheVars, statVars, poolVars, frame, batch>>

\* match(): processMatch on the caller's thread
Match(req) ==
    /\ last = Idle
    /\ last' = [op |-> "match", request |-> req, done |-> FALSE]
    /\ ProcessStart(Caller, 0, req)
    /\ submitted' = submitted + 1
    /\ UNCHANGED <<dbVars, stores, config_, lifeVars, genVars, lockVars, metricVars, counters_, cacheVars, successful_matches_,
                   cache_hits_, cache_misses_, latencies_, poolVars, batch>>

\* testCaching: the client issues the request it has just been answered once
\* more; `first` keeps the response to the first of the pair
MatchAgain ==
    /\ last.op = "match"
    /\ last.done
    /\ "first" \notin DOMAIN last
    /\ last' = [op |-> "match", request |-> last.request, done |-> FALSE,
                first |-> last.ret]
    /\ ProcessStart(Caller, 0, last.request)
    /\ submitted' = submitted + 1
    /\ UNCHANGED <<dbVars, stores, config_, lifeVars, genVars, lockVars, metricVars, counters_, cacheVars, successful_matches_,
                   cache_hits_, cache_misses_, latencies_, poolVars, batch>>

\* matchAsync(): submit processMatch(request) to the pool
\* submit's exception is not caught: it leaves matchAsync and no future is returned
MatchAsync(req) ==
    /\ last = Idle
    /\ shutdown # "done"
    /\ Submit(req)
    /\ last' = IF stop_ THEN [op |-> "matchAsync", threw |-> POOL_STOPPED]
               ELSE [op |-> "matchAsync", ret |-> Len(futures) + 1]
    /\ UNCHANGED <<dbVars, stores, config_, lifeVars, genVars, lockVars, metricVars, counters_, cacheVars, statVars, frame, batch>>

\* future.get() on a future matchAsync returned: blocks until the task has run
FutureGet(f) ==
    /\ last = Idle
    /\ batch.phase = "none"
    /\ futures[f].state = "ready"
    /\ last' = [op |-> "get", request_id |-> futures[f].request_id,
                ret |-> futures[f].value]
    /\ futures' = [futures EXCEPT ![f] = [state |-> "retrieved"]]
    /\ UNCHANGED <<dbVars, stores, config_, submitted, lifeVars, genVars, lockVars, metricVars, counters_, cacheVars, statVars, tasks_, frame, batch>>

\* matchBatch(): entry
MatchBatch(reqs) ==
    /\ last = Idle
    /\ shutdown # "done"
    /\ last' = [op |-> "matchBatch", requests |-> reqs, done |-> FALSE]
    /\ batch' = [phase |-> "running", requests |-> reqs, futures |-> <<>>,
                 responses |-> <<>>]
    /\ UNCHANGED <<dbVars, stores, config_, submitted, lifeVars, genVars, lockVars, metricVars, counters_, cacheVars, statVars, poolVars, frame>>

\* matchBatch(): futures.push_back(matchAsync(request)); an exception of
\* matchAsync leaves matchBatch, the futures collected so far are dropped
BatchSubmit ==
    /\ batch.phase = "running"
    /\ shutdown # "done"
    /\ Len(batch.futures) < Len(batch.requests)
    /\ Submit(batch.requests[Len(batch.futures) + 1])
    /\ IF stop_
       THEN /\ batch' = [phase |-> "none"]
            /\ last' = [last EXCEPT !.done = TRUE] @@ [threw |-> POOL_STOPPED]
       ELSE /\ batch' = [batch EXCEPT !.futures = Append(@, Len(futures) + 1)]
            /\ UNCHANGED last
    /\ UNCHANGED <<dbVars, stores, config_, lifeVars, genVars, lockVars, metricVars, counters_, cacheVars, statVars, frame>>

\* matchBatch(): responses.push_back(future.get()), in the order of the futures
BatchCollect ==
    /\ batch.phase = "running"
    /\ Len(batch.futures) = Len(batch.requests)
    /\ Len(batch.responses) < Len(batch.requests)
    /\ LET f == batch.futures[Len(batch.responses) + 1]
       IN  /\ futures[f].state = "ready"
           /\ batch' = [batch EXCEPT !.responses = Append(@, futures[f].value)]
           /\ futures' = [futures EXCEPT ![f] = [state |-> "retrieved"]]
    /\ UNCHANGED <<dbVars, stores, last, config_, submitted, lifeVars, genVars, lockVars, metricVars, counters_, cacheVars, statVars, tasks_, frame>>

\* matchBatch(): return responses
BatchReturn ==
    /\ batch.phase = "running"
    /\ Len(batch.futures) = Len(batch.requests)
    /\ Len(batch.responses) = Len(batch.requests)
    /\ last' = [last EXCEPT !.done = TRUE] @@ [ret |-> batch.responses]
    /\ batch' = [phase |-> "none"]
    /\ UNCHANGED <<dbVars, stores, config_, submitted, lifeVars, genVars, lockVars, metricVars, counters_, cacheVars, statVars, poolVars, frame>>

\* processMatch returns: a worker's packaged task sets its future, match()
\* returns to the caller
Deliver(t, resp) ==
    /\ frame' = [frame EXCEPT ![t] = NoFrame]
    /\ IF t = Caller
       THEN /\ last' = [last EXCEPT !.done = TRUE] @@ [ret |-> resp]
            /\ UNCHANGED futures
       ELSE /\ futures' = [futures EXCEPT ![frame[t].task] =
                                [state |-> "ready", request_id |-> @.request.request_id,
                                 value |-> resp]]
            /\ UNCHANGED last

\* a lookup that never finds the key: every request goes on to the engine
ProcessCheck_Miss(t) ==
    /\ frame[t].pc = "check"
    /\ cache_misses_' = cache_misses_ + 1
    /\ frame' = [frame EXCEPT ![t].pc = "query"]
    /\ UNCHANGED <<dbVars, stores, last, config_, submitted, lifeVars, genVars, lockVars, metricVars, counters_,
                   cacheVars, total_requests_, successful_matches_, cache_hits_, latencies_,
                   poolVars, batch>>

\* processMatch: checkCache(cache_key); a hit returns the cached results
ProcessCheck(t) ==
    /\ frame[t].pc = "check"
    /\ LET key == generateCacheKey(frame[t].request.fingerprint)
       IN  IF key \in DOMAIN cache_
           THEN /\ checkCache(key)
                /\ cache_hits_' = cache_hits_ + 1
                /\ collector_latencies_' = recordLatency(collector_latencies_, "match_cached")
                /\ Deliver(t, Response(frame[t].request, cache_[key], TRUE))
                /\ UNCHANGED <<cache_misses_, tasks_>>
           ELSE /\ cache_misses_' = cache_misses_ + 1
                /\ frame' = [frame EXCEPT ![t].pc = "query"]
                /\ UNCHANGED <<cacheVars, cache_hits_, last, poolVars, collector_latencies_>>
    /\ UNCHANGED <<dbVars, stores, config_, submitted, lifeVars, genVars, lockVars, gauges_, counters_, total_requests_, successful_matches_,
                   latencies_, batch>>

\* processMatch: the effective floor and cap, then db_manager_->findMatches
EffectiveMinSimilarity(req) ==
    IF req.min_similarity.num > 0 THEN req.min_similarity
    ELSE config_.default_min_similarity

EffectiveMaxResults(req) ==
    IF req.max_results > 0 THEN req.max_results ELSE config_.default_max_results

\* a processMatch that caches whatever the engine returned, empty or not
ProcessQuery_CacheAny(t) ==
    /\ frame[t].pc = "query"
    /\ DbMutexFree
    /\ \E rs \in findMatches(frame[t].request.fingerprint,
                              EffectiveMinSimilarity(frame[t].request),
                              EffectiveMaxResults(frame[t].request)) :
          frame' = [frame EXCEPT ![t].matches = rs,
                                 ![t].pc = IF config_.enable_caching
                                           THEN "update" ELSE "finish"]
    /\ UNCHANGED <<dbVars, stores, last, config_, submitted, lifeVars, genVars, lockVars, metricVars, counters_, cacheVars, statVars, poolVars, batch>>

ProcessQuery(t) ==
    /\ frame[t].pc = "query"
    /\ DbMutexFree
    /\ \E rs \in findMatches(frame[t].request.fingerprint,
                              EffectiveMinSimilarity(frame[t].request),
                              EffectiveMaxResults(frame[t].request)) :
          frame' = [frame EXCEPT ![t].matches = rs,
                                 ![t].pc = IF config_.enable_caching /\ rs # <<>>
                                           THEN "update" ELSE "finish"]
    /\ UNCHANGED <<dbVars, stores, last, config_, submitted, lifeVars, genVars, lockVars, metricVars, counters_, cacheVars, statVars, poolVars, batch>>

\* processMatch: updateCache(cache_key, response.matches); where the eviction
\* is undefined the build either goes on or the thread dies in it
ProcessUpdate(t) ==
    /\ frame[t].pc = "update"
    /\ \/ /\ updateCache(generateCacheKey(frame[t].request.fingerprint), frame[t].matches)
          /\ frame' = [frame EXCEPT ![t].pc = "finish"]
       \/ /\ UpdateUndefined
          /\ frame' = [frame EXCEPT ![t].pc = "crashed"]
          /\ UNCHANGED cacheVars
    /\ UNCHANGED <<dbVars, stores, last, config_, submitted, lifeVars, genVars, lockVars, metricVars, counters_, statVars, poolVars, batch>>

\* processMatch: success, successful_matches_, the latency sample, return
ProcessFinish(t) ==
    /\ frame[t].pc = "finish"
    /\ successful_matches_' = successful_matches_ + 1
    /\ latencies_' = latencies_ + 1
    /\ collector_latencies_' =
           recordLatency(recordLatency(collector_latencies_, "match_db_query"), "match_total")
    /\ Deliver(t, Response(frame[t].request, frame[t].matches, TRUE))
    /\ UNCHANGED <<dbVars, stores, config_, submitted, lifeVars, genVars, lockVars, gauges_, counters_, cacheVars, total_requests_, cache_hits_,
                   cache_misses_, tasks_, batch>>

\* what() of an exception the engine raises inside findMatches
ENGINE_FAILURE == "std::bad_alloc"

MATCH_ERRORS == "match_errors"

\* MetricsCollector::getCounter
getCounter(metric) == IF metric \in DOMAIN counters_ THEN counters_[metric] ELSE 0

\* the response processMatch builds in its catch block
FailureResponse(req, what) ==
    [request_id |-> req.request_id, matches |-> <<>>, success |-> FALSE,
     error_message |-> what]

\* processMatch: findMatches throws instead of returning
ProcessQueryFail(t) ==
    /\ frame[t].pc = "query"
    /\ collector_latencies_' = recordLatency(collector_latencies_, "match_db_query")
    /\ frame' = [frame EXCEPT ![t] = [pc |-> "error", task |-> frame[t].task,
                                      request |-> frame[t].request,
                                      what |-> ENGINE_FAILURE]]
    /\ UNCHANGED <<dbVars, stores, last, config_, submitted, lifeVars, genVars, lockVars, gauges_, counters_,
                   cacheVars, statVars, poolVars, batch>>

\* processMatch, catch block: incrementCounter("match_errors") is
\* counters_[metric].fetch_add(1) without the collector's mutex.  On an
\* existing entry it is an atomic add, after which the latency sample is
\* pushed and the response returned; a missing entry is first looked up
\* (this step) and then inserted by operator[] (ProcessErrorInsert).
ProcessError(t) ==
    /\ frame[t].pc = "error"
    /\ IF MATCH_ERRORS \in DOMAIN counters_
       THEN /\ counters_' = [counters_ EXCEPT ![MATCH_ERRORS] = @ + 1]
            /\ latencies_' = latencies_ + 1
            /\ collector_latencies_' = recordLatency(collector_latencies_, "match_total")
            /\ Deliver(t, FailureResponse(frame[t].request, frame[t].what))
       ELSE /\ frame' = [frame EXCEPT ![t].pc = "insert"]
            /\ UNCHANGED <<counters_, latencies_, collector_latencies_, last, futures>>
    /\ UNCHANGED <<dbVars, stores, config_, submitted, lifeVars, genVars, lockVars, gauges_, cacheVars,
                   total_requests_, successful_matches_, cache_hits_, cache_misses_,
                   tasks_, batch>>

\* operator[] inserts the entry it did not find and adds 1.  When another
\* thread has inserted the entry in between, the two unsynchronised inserts
\* into the unordered_map are a data race: the entry ends with both
\* increments or with one of them, or the thread dies in the map.
ProcessErrorInsert(t) ==
    /\ frame[t].pc = "insert"
    /\ \/ /\ counters_' = [m \in DOMAIN counters_ \cup {MATCH_ERRORS} |->
                               IF m = MATCH_ERRORS THEN getCounter(m) + 1
                               ELSE counters_[m]]
          /\ latencies_' = latencies_ + 1
          /\ collector_latencies_' = recordLatency(collector_latencies_, "match_total")
          /\ Deliver(t, FailureResponse(frame[t].request, frame[t].what))
       \/ /\ MATCH_ERRORS \in DOMAIN counters_
          /\ counters_' = [counters_ EXCEPT ![MATCH_ERRORS] = 1]
          /\ latencies_' = latencies_ + 1
          /\ collector_latencies_' = recordLatency(collector_latencies_, "match_total")
          /\ Deliver(t, FailureResponse(frame[t].request, frame[t].what))
       \/ /\ MATCH_ERRORS \in DOMAIN counters_
          /\ frame' = [frame EXCEPT ![t].pc = "crashed"]
          /\ UNCHANGED <<counters_, latencies_, collector_latencies_, last, futures>>
    /\ UNCHANGED <<dbVars, stores, config_, submitted, lifeVars, genVars, lockVars, gauges_, cacheVars,
                   total_requests_, successful_matches_, cache_hits_, cache_misses_,
                   tasks_, batch>>

\* storeFingerprint called on the store the service shares
Ingest(cid, fp, md) ==
    /\ stores < MaxIngest
    /\ StoreFingerprint(cid, fp, md)

InitStore ==
    /\ content = <<>>
    /\ fingerprints = EmptyBag
    /\ fingerprint_metadata = <<>>
    /\ db_mutex_ = UNLOCKED
    /\ txn = NoTxn
    /\ stores = 0
    /\ last = Idle

\* FingerprintGenerator(): prev_features_.fill(0.0f)
InitGenerator == prev_features_ = ZeroFeatures

\* MetricsCollector(): the three maps are empty
InitMetrics ==
    /\ counters_ = <<>>
    /\ collector_latencies_ = <<>>
    /\ gauges_ = <<>>
    /\ mutex_ = UNLOCKED

InitService(cfgs) ==
    /\ config_ \in cfgs
    /\ cache_ = <<>>
    /\ cache_lru_ = <<>>
    /\ cache_mutex_ = UNLOCKED
    /\ stats_mutex_ = UNLOCKED
    /\ total_requests_ = 0
    /\ successful_matches_ = 0
    /\ cache_hits_ = 0
    /\ cache_misses_ = 0
    /\ latencies_ = 0
    /\ tasks_ = <<>>
    /\ futures = <<>>
    /\ frame = [t \in Threads |-> NoFrame]
    /\ batch = [phase |-> "none"]
    /\ submitted = 0
    /\ stop_ = FALSE
    /\ shutdown = "none"
    /\ destroyed = FALSE

NextStore ==
    \/ \E cid \in ContentIds, fp \in Fingerprints, md \in Metadatas :
          stores < MaxStores /\ StoreFingerprint(cid, fp, md)
    \/ \E fp \in Fingerprints, ms \in MinSimilarities, mr \in 0..MaxResultsArg :
          FindMatches(fp, ms, mr)
    \/ GetStatsCall
    \/ Return

\* the store under one client, beside a service that is never called
InitStoreClient == InitStore /\ InitGenerator /\ InitMetrics /\ InitService({DefaultConfig})

SpecStore == InitStoreClient /\ [][NextStore]_vars

Init == InitStore /\ InitGenerator /\ InitMetrics /\ InitService(Configs)

\* the steps of the pool's workers and of processMatch on any thread
Process ==
    \/ \E w \in Workers : WorkerDequeue(w)
    \/ \E t \in Threads : ProcessCheck(t)
    \/ \E t \in Threads : ProcessQuery(t)
    \/ \E t \in Threads : ProcessUpdate(t)
    \/ \E t \in Threads : ProcessFinish(t)

Next ==
    \/ \E cid \in IngestIds, fp \in RequestFingerprints, md \in IngestMetadatas :
          Ingest(cid, fp, md)
    \/ \E body \in RequestBodies :
          Issued < MaxRequests /\ Match(MatchRequest(Issued + 1, body))
    \/ \E body \in RequestBodies :
          Issued < MaxRequests /\ MatchAsync(MatchRequest(Issued + 1, body))
    \/ \E n \in 0..MaxBatch : \E bodies \in [1..n -> RequestBodies] :
          /\ Issued + n <= MaxRequests
          /\ MatchBatch([i \in 1..n |-> MatchRequest(Issued + i, bodies[i])])
    \/ BatchSubmit
    \/ BatchCollect
    \/ BatchReturn
    \/ \E f \in DOMAIN futures : FutureGet(f)
    \/ Return
    \/ ClearCache
    \/ Process

Spec == Init /\ [][Next]_vars

\* the cache under a worker and a caller: requests that take the defaults
InitCache == InitStore /\ InitGenerator /\ InitMetrics /\ InitService(CacheConfigs)

NextCache ==
    \/ \E cid \in IngestIds, fp \in RequestFingerprints, md \in IngestMetadatas :
          Ingest(cid, fp, md)
    \/ \E body \in CacheRequestBodies :
          Issued < MaxCacheRequests /\ Match(MatchRequest(Issued + 1, body))
    \/ \E body \in CacheRequestBodies :
          /\ Issued < MaxCacheRequests
          /\ \A f \in DOMAIN futures : futures[f].state = "retrieved"
          /\ MatchAsync(MatchRequest(Issued + 1, body))
    \/ \E f \in DOMAIN futures : FutureGet(f)
    \/ Return
    \/ ClearCache
    \/ Process

SpecCache == InitCache /\ [][NextCache]_vars

\* one synchronous client: every request runs on the caller's thread
SeqConfigs ==
    { [DefaultConfig EXCEPT !.num_threads = 1, !.cache_size = cs, !.enable_caching = ec] :
        cs \in 1..MaxCacheSize, ec \in BOOLEAN }

SeqRequestBodies ==
    { [fingerprint |-> fp, min_similarity |-> ms, max_results |-> mr] :
        fp \in Fingerprints, ms \in MinSimilarities, mr \in 0..MaxResultsArg }

SeqIngestIds == {1, 2}

InitSeq == InitStore /\ InitGenerator /\ InitMetrics /\ InitService(SeqConfigs)

NextSeq ==
    \/ \E cid \in SeqIngestIds, fp \in Fingerprints, md \in IngestMetadatas :
          stores < MaxSeqIngest /\ StoreFingerprint(cid, fp, md)
    \/ \E body \in SeqRequestBodies :
          Issued < MaxSeqRequests /\ Match(MatchRequest(Issued + 1, body))
    \/ Issued < MaxSeqRequests /\ MatchAgain
    \/ Return
    \/ ProcessCheck(Caller)
    \/ ProcessQuery(Caller)
    \/ ProcessUpdate(Caller)
    \/ ProcessFinish(Caller)

SpecSeq == InitSeq /\ [][NextSeq]_vars

\* cache_size = 0 with caching enabled, under a worker and the caller
ZeroConfigs == { [DefaultConfig EXCEPT !.num_threads = 1, !.cache_size = 0] }

InitZero == InitStore /\ InitGenerator /\ InitMetrics /\ InitService(ZeroConfigs)

NextZero ==
    \/ \E cid \in IngestIds, fp \in RequestFingerprints, md \in IngestMetadatas :
          Ingest(cid, fp, md)
    \/ \E body \in CacheRequestBodies :
          Issued < MaxRequests /\ Match(MatchRequest(Issued + 1, body))
    \/ \E body \in CacheRequestBodies :
          Issued < MaxRequests /\ MatchAsync(MatchRequest(Issued + 1, body))
    \/ \E f \in DOMAIN futures : FutureGet(f)
    \/ Return
    \/ ClearCache
    \/ Process

SpecZero == InitZero /\ [][NextZero]_vars

\* the pool under asynchronous requests and a shutdown requested at any time
\* by the owner of the pool; caching is off
PoolConfigs ==
    { [DefaultConfig EXCEPT !.num_threads = n, !.cache_size = 1, !.enable_caching = FALSE] :
        n \in 1..NumWorkers }

PoolRequestBodies ==
    { [fingerprint |-> Fingerprint(<<0, 1>>, 3000), min_similarity |-> Ratio(1, 2),
       max_results |-> 1] }

InitPool == InitStore /\ InitGenerator /\ InitMetrics /\ InitService(PoolConfigs)

NextPool ==
    \/ \E body \in PoolRequestBodies :
          Issued < MaxPoolRequests /\ MatchAsync(MatchRequest(Issued + 1, body))
    \/ \E n \in 1..MaxBatch : \E bodies \in [1..n -> PoolRequestBodies] :
          /\ Issued + n <= MaxPoolRequests
          /\ MatchBatch([i \in 1..n |-> MatchRequest(Issued + i, bodies[i])])
    \/ BatchSubmit
    \/ BatchCollect
    \/ BatchReturn
    \/ \E f \in DOMAIN futures : FutureGet(f)
    \/ Return
    \/ \E w \in Workers : WorkerDequeue(w)
    \/ \E w \in Workers : ProcessQuery(w)
    \/ \E w \in Workers : ProcessFinish(w)
    \/ \E w \in Workers : WorkerExit(w)
    \/ ShutdownBegin
    \/ ShutdownEnd

SpecPool == InitPool /\ [][NextPool]_vars

\* every worker thread keeps being scheduled: a worker that can take a task,
\* go on with the one it runs or return does so, and the owner's join returns
\* once the workers have returned
PoolFairness ==
    /\ \A w \in 1..NumWorkers :
          /\ WF_vars(w \in Workers /\ WorkerDequeue(w))
          /\ WF_vars(w \in Workers /\ ProcessQuery(w))
          /\ WF_vars(w \in Workers /\ ProcessFinish(w))
          /\ WF_vars(w \in Workers /\ WorkerExit(w))
    /\ WF_vars(ShutdownEnd)

SpecPoolFair == InitPool /\ [][NextPool]_vars /\ PoolFairness

\* the service over an engine that may fail any query, under a worker and
\* the caller
FailConfigs == { [DefaultConfig EXCEPT !.num_threads = 1, !.cache_size = 1] }

InitFail == InitStore /\ InitGenerator /\ InitMetrics /\ InitService(FailConfigs)

NextFail ==
    \/ \E cid \in IngestIds, fp \in RequestFingerprints, md \in IngestMetadatas :
          Ingest(cid, fp, md)
    \/ \E body \in RequestBodies :
          Issued < MaxFailRequests /\ Match(MatchRequest(Issued + 1, body))
    \/ \E body \in RequestBodies :
          Issued < MaxFailRequests /\ MatchAsync(MatchRequest(Issued + 1, body))
    \/ \E f \in DOMAIN futures : FutureGet(f)
    \/ Return
    \/ Process
    \/ \E t \in Threads : ProcessQueryFail(t)
    \/ \E t \in Threads : ProcessError(t)
    \/ \E t \in Threads : ProcessErrorInsert(t)

SpecFail == InitFail /\ [][NextFail]_vars

\* a store of up to three items under one client that asks for the best one
\* or two matches
TopKFingerprints == { Fingerprint(hs, d) : hs \in {<<0>>, <<0, 0>>, <<0, 1>>}, d \in Durations }

InitTopK == InitStore /\ InitGenerator /\ InitMetrics /\ InitService({DefaultConfig})

NextTopK ==
    \/ \E cid \in ContentIds, fp \in TopKFingerprints, md \in IngestMetadatas :
          StoreFingerprint(cid, fp, md)
    \/ \E fp \in TopKFingerprints, ms \in MinSimilarities, mr \in 1..MaxResultsArg :
          FindMatches(fp, ms, mr)
    \/ Return

SpecTopK == InitTopK /\ [][NextTopK]_vars

\* ------------------------------------------- storeFingerprint, step by step
\* the three tables as BEGIN TRANSACTION finds them: what ROLLBACK restores
Tables == [content |-> content, fingerprints |-> fingerprints,
           fingerprint_metadata |-> fingerprint_metadata]

InTransaction == txn.pc \in {"content", "postings"}

\* storeFingerprint: lock db_mutex_, BEGIN TRANSACTION
StoreBegin(cid, fp, md) ==
    /\ txn.pc \in {"idle", "returned"}
    /\ stores < MaxTxnStores
    /\ DbMutexFree
    /\ db_mutex_' = INGEST_THREAD
    /\ txn' = [pc |-> "content", content_id |-> cid, fingerprint |-> fp, metadata |-> md,
               next |-> 1, saved |-> Tables]
    /\ stores' = stores + 1
    /\ UNCHANGED <<content, fingerprints, fingerprint_metadata, last, serviceVars>>

\* sqlite3_step(insert_content_stmt_) returns SQLITE_DONE
StoreContent ==
    /\ txn.pc = "content"
    /\ content' = InsertContent(content, txn.content_id, txn.fingerprint, txn.metadata)
    /\ txn' = [txn EXCEPT !.pc = "postings"]
    /\ UNCHANGED <<fingerprints, fingerprint_metadata, db_mutex_, stores, last, serviceVars>>

\* one round of the loop: sqlite3_step(insert_fingerprint_stmt_) returns SQLITE_DONE
StorePosting ==
    /\ txn.pc = "postings"
    /\ txn.next <= Len(txn.fingerprint.hash_values)
    /\ fingerprints' = fingerprints (+)
           SetToBag({PostingRow(txn.content_id, txn.fingerprint.hash_values[txn.next],
                                txn.next - 1)})
    /\ txn' = [txn EXCEPT !.next = @ + 1]
    /\ UNCHANGED <<content, fingerprint_metadata, db_mutex_, stores, last, serviceVars>>

\* after the loop: INSERT OR REPLACE INTO fingerprint_metadata, COMMIT,
\* return true; the lock is released
StoreCommit ==
    /\ txn.pc = "postings"
    /\ txn.next > Len(txn.fingerprint.hash_values)
    /\ fingerprint_metadata' =
           InsertFingerprintMetadata(fingerprint_metadata, txn.content_id, txn.fingerprint)
    /\ txn' = [txn EXCEPT !.pc = "returned"] @@ [ret |-> TRUE]
    /\ db_mutex_' = UNLOCKED
    /\ UNCHANGED <<content, fingerprints, stores, last, serviceVars>>

\* executeSql("ROLLBACK"): the tables are those BEGIN TRANSACTION found
Rollback(saved) == saved

\* the statement at hand (the content insert, a posting insert, or the
\* metadata insert) fails: ROLLBACK, return false; the lock is released
StoreFail ==
    /\ InTransaction
    /\ content' = Rollback(txn.saved).content
    /\ fingerprints' = Rollback(txn.saved).fingerprints
    /\ fingerprint_metadata' = Rollback(txn.saved).fingerprint_metadata
    /\ txn' = [txn EXCEPT !.pc = "returned"] @@ [ret |-> FALSE]
    /\ db_mutex_' = UNLOCKED
    /\ UNCHANGED <<stores, last, serviceVars>>

\* a thread that stores fingerprints beside a client that queries the store
TxnFingerprints == { Fingerprint(hs, d) : hs \in {<<>>, <<0, 0>>, <<0, 1>>}, d \in Durations }
TxnIds == {1, 2}

InitTxn == InitStore /\ InitGenerator /\ InitMetrics /\ InitService({DefaultConfig})

NextTxn ==
    \/ \E cid \in TxnIds, fp \in TxnFingerprints, md \in IngestMetadatas :
          StoreBegin(cid, fp, md)
    \/ StoreContent
    \/ StorePosting
    \/ StoreCommit
    \/ StoreFail
    \/ \E fp \in TxnFingerprints, ms \in MinSimilarities, mr \in 1..MaxResultsArg :
          FindMatches(fp, ms, mr)
    \/ Return

SpecTxn == InitTxn /\ [][NextTxn]_vars

\* getContentById prepares and steps its SELECT on the shared connection
\* without taking db_mutex_: it reads the content table as it stands, inside
\* another thread's open transaction too
GetContentByIdCall(cid) ==
    /\ last = Idle
    /\ last' = [op |-> "getContentById", content_id |-> cid, ret |-> GetContentById(cid)]
    /\ UNCHANGED <<dbVars, stores, serviceVars>>

\* the three public reads of the store beside a thread that stores
NextReads ==
    \/ NextTxn
    \/ \E cid \in TxnIds : GetContentByIdCall(cid)
    \/ GetStatsCall

SpecReads == InitTxn /\ [][NextReads]_vars

\* ------------------------------------------------------------ the generator
FRAME_SIZE == 4096
HOP_SIZE == FRAME_SIZE \div 2
WORD_BITS == 32              \* width of uint32_t, of the hash and of the shift 1u << i
SAMPLE_RATE == 44100

\* the frames generate() reads from a buffer of n samples
FramesIn(n) == IF n < FRAME_SIZE THEN 0 ELSE (n - FRAME_SIZE) \div HOP_SIZE + 1

\* extractSpectralFeatures of a frame: one value log1p(energy) >= 0 per band.
\* The frames of the buffers below are silent, or have energy in the bands 0
\* and 1, or in the last band.
Features(levels) == [b \in Bands |-> IF b \in DOMAIN levels THEN levels[b] ELSE 0]
FrameFeatures ==
    { ZeroFeatures, Features(0 :> 1), Features(0 :> 2 @@ 1 :> 1),
      Features((NUM_BANDS - 1) :> 1) }

\* AudioData: the number of samples, the sample rate, and for every frame of
\* the buffer the features extractSpectralFeatures computes from it
SampleCounts == {0, HOP_SIZE} \cup { FRAME_SIZE + k * HOP_SIZE : k \in 0..(MaxFrames - 1) }
AudioDatas ==
    UNION { { [num_samples |-> n, sample_rate |-> SAMPLE_RATE, features |-> fs] :
                fs \in [1..FramesIn(n) -> FrameFeatures] } : n \in SampleCounts }

\* a - b in size_t (64 bits): a value below b wraps to 2^64 - (b - a)
SizeSub(a, b) ==
    IF a >= b THEN [wrapped |-> FALSE, value |-> a - b]
    ELSE [wrapped |-> TRUE, below |-> b - a]

\* size_t num_frames = (audio.samples.size() - FRAME_SIZE) / HOP_SIZE + 1;
\* from a wrapped difference it is 2^53 less at most 2
NumFrames(n) ==
    LET d == SizeSub(n, FRAME_SIZE)
    IN  IF d.wrapped
        THEN [wrapped |-> TRUE, below |-> (d.below + HOP_SIZE - 1) \div HOP_SIZE - 1]
        ELSE [wrapped |-> FALSE, value |-> d.value \div HOP_SIZE + 1]

\* what() of the exception vector::reserve raises for about 2^53 elements
RESERVE_FAILURE == "std::bad_alloc"

RECURSIVE BitsValue(_)
BitsValue(S) ==
    IF S = {} THEN 0
    ELSE LET i == CHOOSE x \in S : TRUE IN 2^i + BitsValue(S \ {i})

\* featuresToHash: bit i is set when band i has grown.  For i = 32 the shift
\* 1u << i is by the width of the operand, which is undefined: the build sets
\* bit 0 (the count taken modulo 32) or no bit.  (No band 31 grows in the
\* buffers above, so that every hash stays below 2^31.)
featuresToHash(features, prev_features) ==
    LET grown == { i \in Bands : features[i] - prev_features[i] > 0 }
        low == { i \in grown : i < WORD_BITS }
    IN  IF \E i \in grown : i >= WORD_BITS
        THEN {BitsValue(low), BitsValue(low \cup {0})}
        ELSE {BitsValue(low)}

\* the loop of generate over the frames: the hash sequences it may produce
RECURSIVE HashFrames(_, _)
HashFrames(frames, prev) ==
    IF frames = <<>> THEN {<<>>}
    ELSE { <<h>> \o rest : h \in featuresToHash(Head(frames), prev),
                            rest \in HashFrames(Tail(frames), Head(frames)) }

\* generate() on a generator whose prev_features_ is prev: the calls it may
\* turn into.  An empty buffer returns Fingerprint(); a buffer shorter than a
\* frame makes reserve() throw after duration_ms has been computed; otherwise
\* the frames are hashed against prev_features_, which is left at the features
\* of the last frame.
generate(audio, prev) ==
    IF audio.num_samples = 0
    THEN { [op |-> "generate", audio |-> audio, ret |-> Fingerprint(<<>>, 0), prev |-> prev] }
    ELSE IF NumFrames(audio.num_samples).wrapped
    THEN { [op |-> "generate", audio |-> audio, threw |-> RESERVE_FAILURE, prev |-> prev] }
    ELSE LET n == NumFrames(audio.num_samples).value
             frames == SubSeq(audio.features, 1, n)
         IN  { [op |-> "generate", audio |-> audio,
                ret |-> Fingerprint(hs, (audio.num_samples * 1000) \div audio.sample_rate),
                prev |-> frames[n]] : hs \in HashFrames(frames, prev) }

Generate(audio) ==
    /\ last = Idle
    /\ \E call \in generate(audio, prev_features_) :
          /\ prev_features_' = call.prev
          /\ last' = [f \in DOMAIN call \ {"prev"} |-> call[f]]
    /\ UNCHANGED <<dbVars, stores, config_, submitted, lifeVars, lockVars, metricVars, counters_,
                   cacheVars, statVars, poolVars, frame, batch>>

\* __builtin_popcount and ^ on unsigned values
RECURSIVE PopCount(_)
PopCount(x) == IF x = 0 THEN 0 ELSE (x % 2) + PopCount(x \div 2)

RECURSIVE Xor(_, _)
Xor(a, b) ==
    IF a = 0 /\ b = 0 THEN 0
    ELSE (IF a % 2 = b % 2 THEN 0 ELSE 1) + 2 * Xor(a \div 2, b \div 2)

\* a count of the bits that differ
MatchingBits_Differing(xor_result) == PopCount(xor_result)

\* matching_bits += 32 - __builtin_popcount(xor_result)
MatchingBits(xor_result) == WORD_BITS - PopCount(xor_result)

\* calculateSimilarity: 0.0 when either fingerprint has no hash, else
\* matching_bits / total_bits over the common prefix
calculateSimilarity(fp1, fp2) ==
    IF fp1.hash_values = <<>> \/ fp2.hash_values = <<>> THEN Ratio(0, 1)
    ELSE LET min_length == Min(Len(fp1.hash_values), Len(fp2.hash_values))
             RECURSIVE Sum(_)
             Sum(i) == IF i = 0 THEN 0
                       ELSE MatchingBits(Xor(fp1.hash_values[i], fp2.hash_values[i])) + Sum(i - 1)
         IN  Ratio(Sum(min_length), WORD_BITS * min_length)

CalculateSimilarity(fp1, fp2) ==
    /\ last = Idle
    /\ last' = [op |-> "calculateSimilarity", fp1 |-> fp1, fp2 |-> fp2,
                ret |-> calculateSimilarity(fp1, fp2)]
    /\ UNCHANGED <<dbVars, stores, serviceVars>>

\* the fingerprints the generator's client compares: hashes with no, one and
\* sixteen bits set
SimilarityFingerprints ==
    { Fingerprint(hs, d) : hs \in UNION { [1..n -> {0, 1, 65535}] : n \in 0..MaxLen },
                           d \in Durations }

\* one generator used by one client, beside a store and a service that are
\* never called
InitGen == InitStore /\ InitGenerator /\ InitMetrics /\ InitService({DefaultConfig})

NextGen ==
    \/ \E audio \in AudioDatas : Generate(audio)
    \/ \E fp1, fp2 \in SimilarityFingerprints : CalculateSimilarity(fp1, fp2)
    \/ Return

SpecGen == InitGen /\ [][NextGen]_vars

\* ------------------------------------------------------ the metrics collector
MetricNames == {MATCH_ERRORS, "requests"}
LatencyOperations == {"match_total", "match_cached"}
GaugeNames == {"queue_depth"}
GaugeValues == {1, 2}

\* incrementCounter called by one thread at a time:
\* counters_[metric].fetch_add(1), operator[] creating the entry at 0
IncrementCounter(metric) ==
    /\ last = Idle
    /\ getCounter(metric) < MaxCount
    /\ counters_' = [m \in DOMAIN counters_ \cup {metric} |->
                        IF m = metric THEN getCounter(m) + 1 ELSE counters_[m]]
    /\ UNCHANGED <<dbVars, stores, last, config_, submitted, lifeVars, genVars, lockVars, metricVars,
                   cacheVars, statVars, poolVars, frame, batch>>

RecordLatency(operation) ==
    /\ last = Idle
    /\ (operation \in DOMAIN collector_latencies_ => collector_latencies_[operation] < MaxCount)
    /\ collector_latencies_' = recordLatency(collector_latencies_, operation)
    /\ UNCHANGED <<dbVars, stores, last, config_, submitted, lifeVars, genVars, lockVars, gauges_,
                   counters_, cacheVars, statVars, poolVars, frame, batch>>

\* recordGauge: gauges_[metric] = value
RecordGauge(metric, value) ==
    /\ last = Idle
    /\ gauges_' = [m \in DOMAIN gauges_ \cup {metric} |->
                      IF m = metric THEN value ELSE gauges_[m]]
    /\ UNCHANGED <<dbVars, stores, last, config_, submitted, lifeVars, genVars, lockVars,
                   collector_latencies_, counters_, cacheVars, statVars, poolVars, frame,
                   batch>>

\* reset: latencies_.clear(), gauges_.clear(), every counter stored to 0
Reset ==
    /\ last = Idle
    /\ collector_latencies_' = <<>>
    /\ gauges_' = <<>>
    /\ counters_' = [m \in DOMAIN counters_ |-> 0]
    /\ UNCHANGED <<dbVars, stores, last, config_, submitted, lifeVars, genVars, lockVars,
                   cacheVars, statVars, poolVars, frame, batch>>

GetCounter(metric) ==
    /\ last = Idle
    /\ last' = [op |-> "getCounter", metric |-> metric, ret |-> getCounter(metric)]
    /\ UNCHANGED <<dbVars, stores, serviceVars>>

\* getLatencyStats: an all-zero record unless the operation has samples
getLatencyStats(operation) ==
    IF operation \in DOMAIN collector_latencies_
    THEN [count |-> collector_latencies_[operation]]
    ELSE [count |-> 0]

GetLatencyStats(operation) ==
    /\ last = Idle
    /\ last' = [op |-> "getLatencyStats", operation |-> operation,
                ret |-> getLatencyStats(operation)]
    /\ UNCHANGED <<dbVars, stores, serviceVars>>

\* getAllMetrics: std::lock_guard<std::mutex> lock(mutex_)
GetAllMetricsLock ==
    /\ last = Idle
    /\ mutex_ = UNLOCKED
    /\ mutex_' = Holder(Caller)
    /\ last' = [op |-> "getAllMetrics", done |-> FALSE, pc |-> "report"]
    /\ UNCHANGED <<dbVars, stores, config_, submitted, lifeVars, genVars, cache_mutex_,
                   stats_mutex_, metricVars, counters_, cacheVars, statVars, poolVars, frame,
                   batch>>

\* getAllMetrics: the counters and the gauges are written; with
\* latencies_.empty() the report is returned, else the loop over latencies_
\* calls getLatencyStats(operation)
GetAllMetricsReport ==
    /\ last.op = "getAllMetrics"
    /\ ~ last.done
    /\ last.pc = "report"
    /\ IF collector_latencies_ = <<>>
       THEN /\ last' = [op |-> "getAllMetrics", done |-> TRUE,
                        ret |-> [counters |-> counters_, gauges |-> gauges_]]
            /\ mutex_' = UNLOCKED
       ELSE /\ last' = [last EXCEPT !.pc = "getLatencyStats"]
            /\ UNCHANGED mutex_
    /\ UNCHANGED <<dbVars, stores, config_, submitted, lifeVars, genVars, cache_mutex_,
                   stats_mutex_, metricVars, counters_, cacheVars, statVars, poolVars, frame,
                   batch>>

\* what() of the std::system_error a lock() may throw on a mutex its caller owns
RESOURCE_DEADLOCK == "Resource deadlock avoided"

\* getLatencyStats called by getAllMetrics: std::lock_guard<std::mutex>
\* lock(mutex_) on the mutex the calling thread owns, which is undefined for
\* std::mutex: lock() never returns, or it throws std::system_error and the
\* guard of getAllMetrics releases the mutex while the exception leaves
GetLatencyStatsRelock ==
    /\ last.op = "getAllMetrics"
    /\ ~ last.done
    /\ last.pc = "getLatencyStats"
    /\ mutex_ = Holder(Caller)
    /\ \/ /\ last' = [last EXCEPT !.pc = "blocked"]
          /\ UNCHANGED mutex_
       \/ /\ last' = [op |-> "getAllMetrics", done |-> TRUE, threw |-> RESOURCE_DEADLOCK]
          /\ mutex_' = UNLOCKED
    /\ UNCHANGED <<dbVars, stores, config_, submitted, lifeVars, genVars, cache_mutex_,
                   stats_mutex_, metricVars, counters_, cacheVars, statVars, poolVars, frame,
                   batch>>

\* one collector used by one client, beside a store and a service that are
\* never called
InitCollector == InitStore /\ InitGenerator /\ InitMetrics /\ InitService({DefaultConfig})

NextCollector ==
    \/ \E metric \in MetricNames : IncrementCounter(metric)
    \/ \E operation \in LatencyOperations : RecordLatency(operation)
    \/ \E metric \in GaugeNames, value \in GaugeValues : RecordGauge(metric, value)
    \/ Reset
    \/ \E metric \in MetricNames : GetCounter(metric)
    \/ \E operation \in LatencyOperations : GetLatencyStats(operation)
    \/ GetAllMetricsLock
    \/ GetAllMetricsReport
    \/ GetLatencyStatsRelock
    \/ Return

SpecCollector == InitCollector /\ [][NextCollector]_vars

\* the client's thread keeps running: a call that can go on does
CollectorFairness ==
    /\ WF_vars(GetAllMetricsReport)
    /\ WF_vars(GetLatencyStatsRelock)

SpecCollectorFair == InitCollector /\ [][NextCollector]_vars /\ CollectorFairness

\* ~MatcherService() = default destroys the members in the reverse order of
\* their declaration: latencies_, the four counters, stats_mutex_, cache_lru_,
\* cache_, cache_mutex_ and config_ first (this step), then thread_pool_
\* (DestroyPool and ShutdownEnd), then metrics_ and db_manager_
DestroyMembers ==
    /\ ~ destroyed
    /\ shutdown = "none"
    /\ last = Idle
    /\ batch.phase = "none"
    /\ frame[Caller].pc = "idle"
    /\ destroyed' = TRUE
    /\ UNCHANGED <<dbVars, stores, last, config_, submitted, stop_, shutdown, genVars, lockVars,
                   metricVars, counters_, cacheVars, statVars, poolVars, frame, batch>>

\* ~MatcherService(): thread_pool_.reset() runs ~ThreadPool
DestroyPool ==
    /\ destroyed
    /\ ShutdownBegin

\* a task that uses the destroyed cache or latency vector: where the build
\* does not go on with the freed storage, the thread dies
ProcessDestroyed(t) ==
    /\ destroyed
    /\ frame[t].pc \in {"check", "update", "finish"}
    /\ frame' = [frame EXCEPT ![t].pc = "crashed"]
    /\ UNCHANGED <<dbVars, stores, last, config_, submitted, lifeVars, genVars, lockVars, metricVars,
                   counters_, cacheVars, statVars, poolVars, batch>>

\* a service with un-awaited asynchronous requests that is destroyed by its owner
DestroyConfigs ==
    { [DefaultConfig EXCEPT !.num_threads = n, !.cache_size = 1] : n \in 1..NumWorkers }

InitDestroy == InitStore /\ InitGenerator /\ InitMetrics /\ InitService(DestroyConfigs)

NextDestroy ==
    \/ \E cid \in IngestIds, fp \in RequestFingerprints, md \in IngestMetadatas :
          Ingest(cid, fp, md)
    \/ \E body \in PoolRequestBodies :
          /\ Issued < MaxDestroyRequests
          /\ ~ destroyed
          /\ MatchAsync(MatchRequest(Issued + 1, body))
    \/ \E f \in DOMAIN futures : ~ destroyed /\ FutureGet(f)
    \/ Return
    \/ \E w \in Workers : WorkerDequeue(w)
    \/ \E w \in Workers : ProcessCheck(w)
    \/ \E w \in Workers : ProcessQuery(w)
    \/ \E w \in Workers : ProcessUpdate(w)
    \/ \E w \in Workers : ProcessFinish(w)
    \/ \E w \in Workers : ProcessDestroyed(w)
    \/ \E w \in Workers : WorkerExit(w)
    \/ DestroyMembers
    \/ DestroyPool
    \/ ShutdownEnd

SpecDestroy == InitDestroy /\ [][NextDestroy]_vars

\* a client that sends any MatchRequest the struct can hold: the request id
\* may be the empty string, the floor may lie outside [0, 1]
EMPTY_REQUEST_ID == 0

AnyMinSimilarities == {Ratio(0 - 1, 2), Ratio(0, 1), Ratio(1, 2), Ratio(1, 1), Ratio(3, 2)}

AnyRequestBodies ==
    { [fingerprint |-> fp, min_similarity |-> ms, max_results |-> 1] :
        fp \in RequestFingerprints, ms \in AnyMinSimilarities }

InitAny == InitStore /\ InitGenerator /\ InitMetrics /\ InitService(SeqConfigs)

NextAny ==
    \/ \E cid \in SeqIngestIds, fp \in RequestFingerprints, md \in IngestMetadatas :
          stores < MaxSeqIngest /\ StoreFingerprint(cid, fp, md)
    \/ \E body \in AnyRequestBodies, id \in {EMPTY_REQUEST_ID, Issued + 1} :
          Issued < MaxAnyRequests /\ Match(MatchRequest(id, body))
    \/ Return
    \/ ProcessCheck(Caller)
    \/ ProcessQuery(Caller)
    \/ ProcessUpdate(Caller)
    \/ ProcessFinish(Caller)

SpecAny == InitAny /\ [][NextAny]_vars

\* ------------------------------------------------- the service, lock by lock
\* processMatch, getStats and clearCache with every lock_guard as two steps:
\* the constructor of the guard, which waits until the mutex is free and
\* takes it, and the rest of the guarded block up to the release.
\* the operations processMatch records a latency for
TimedOperations == {"match_cached", "match_db_query", "match_total"}

\* checkCache: std::lock_guard<std::mutex> lock(cache_mutex_)
CheckCacheLock(t) ==
    /\ frame[t].pc = "check"
    /\ cache_mutex_ = UNLOCKED
    /\ cache_mutex_' = Holder(t)
    /\ frame' = [frame EXCEPT ![t].pc = "checkCache"]
    /\ UNCHANGED <<dbVars, stores, last, config_, submitted, lifeVars, genVars, stats_mutex_,
                   mutex_, metricVars, counters_, cacheVars, statVars, poolVars, batch>>

\* a checkCache that returns from a miss without releasing cache_mutex_
CheckCacheUnlock_HeldOnMiss(t) ==
    /\ frame[t].pc = "checkCache"
    /\ LET key == generateCacheKey(frame[t].request.fingerprint)
       IN  IF key \in DOMAIN cache_
           THEN /\ checkCache(key)
                /\ cache_mutex_' = UNLOCKED
                /\ cache_hits_' = cache_hits_ + 1
                /\ frame' = [frame EXCEPT ![t].pc = "match_cached", ![t].matches = cache_[key]]
                /\ UNCHANGED cache_misses_
           ELSE /\ cache_misses_' = cache_misses_ + 1
                /\ frame' = [frame EXCEPT ![t].pc = "query"]
                /\ UNCHANGED <<cacheVars, cache_mutex_, cache_hits_>>
    /\ UNCHANGED <<dbVars, stores, last, config_, submitted, lifeVars, genVars, stats_mutex_,
                   mutex_, metricVars, counters_, total_requests_, successful_matches_,
                   latencies_, poolVars, batch>>

\* checkCache: the lookup, the LRU update on a hit, the release on return;
\* then cache_hits_ or cache_misses_ is counted
CheckCacheUnlock(t) ==
    /\ frame[t].pc = "checkCache"
    /\ cache_mutex_' = UNLOCKED
    /\ LET key == generateCacheKey(frame[t].request.fingerprint)
       IN  IF key \in DOMAIN cache_
           THEN /\ checkCache(key)
                /\ cache_hits_' = cache_hits_ + 1
                /\ frame' = [frame EXCEPT ![t].pc = "match_cached", ![t].matches = cache_[key]]
                /\ UNCHANGED cache_misses_
           ELSE /\ cache_misses_' = cache_misses_ + 1
                /\ frame' = [frame EXCEPT ![t].pc = "query"]
                /\ UNCHANGED <<cacheVars, cache_hits_>>
    /\ UNCHANGED <<dbVars, stores, last, config_, submitted, lifeVars, genVars, stats_mutex_,
                   mutex_, metricVars, counters_, total_requests_, successful_matches_,
                   latencies_, poolVars, batch>>

\* findMatches: std::lock_guard<std::mutex> lock(db_mutex_)
FindMatchesLock(t) ==
    /\ frame[t].pc = "query"
    /\ DbMutexFree
    /\ db_mutex_' = Holder(t)
    /\ frame' = [frame EXCEPT ![t].pc = "findMatches"]
    /\ UNCHANGED <<content, fingerprints, fingerprint_metadata, txn, stores, last, config_,
                   submitted, lifeVars, genVars, lockVars, metricVars, counters_, cacheVars,
                   statVars, poolVars, batch>>

\* findMatches returns its results and releases db_mutex_; without a cache
\* update the request is counted as successful
FindMatchesUnlock(t) ==
    /\ frame[t].pc = "findMatches"
    /\ db_mutex_' = UNLOCKED
    /\ \E rs \in findMatches(frame[t].request.fingerprint,
                              EffectiveMinSimilarity(frame[t].request),
                              EffectiveMaxResults(frame[t].request)) :
          IF config_.enable_caching /\ rs # <<>>
          THEN /\ frame' = [frame EXCEPT ![t].matches = rs, ![t].pc = "update"]
               /\ UNCHANGED successful_matches_
          ELSE /\ frame' = [frame EXCEPT ![t].matches = rs, ![t].pc = "match_db_query"]
               /\ successful_matches_' = successful_matches_ + 1
    /\ UNCHANGED <<content, fingerprints, fingerprint_metadata, txn, stores, last, config_,
                   submitted, lifeVars, genVars, lockVars, metricVars, counters_, cacheVars,
                   total_requests_, cache_hits_, cache_misses_, latencies_, poolVars, batch>>

\* updateCache: std::lock_guard<std::mutex> lock(cache_mutex_)
UpdateCacheLock(t) ==
    /\ frame[t].pc = "update"
    /\ cache_mutex_ = UNLOCKED
    /\ cache_mutex_' = Holder(t)
    /\ frame' = [frame EXCEPT ![t].pc = "updateCache"]
    /\ UNCHANGED <<dbVars, stores, last, config_, submitted, lifeVars, genVars, stats_mutex_,
                   mutex_, metricVars, counters_, cacheVars, statVars, poolVars, batch>>

\* updateCache: eviction and insert, the release on return; then
\* successful_matches_ is counted
UpdateCacheUnlock(t) ==
    /\ frame[t].pc = "updateCache"
    /\ updateCache(generateCacheKey(frame[t].request.fingerprint), frame[t].matches)
    /\ cache_mutex_' = UNLOCKED
    /\ successful_matches_' = successful_matches_ + 1
    /\ frame' = [frame EXCEPT ![t].pc = "match_db_query"]
    /\ UNCHANGED <<dbVars, stores, last, config_, submitted, lifeVars, genVars, stats_mutex_,
                   mutex_, metricVars, counters_, total_requests_, cache_hits_, cache_misses_,
                   latencies_, poolVars, batch>>

\* MetricsCollector::recordLatency: std::lock_guard<std::mutex> lock(mutex_);
\* called on a hit, by ~Timer at the end of the try block, and before return
RecordLatencyLock(t) ==
    /\ frame[t].pc \in TimedOperations
    /\ mutex_ = UNLOCKED
    /\ mutex_' = Holder(t)
    /\ frame' = [frame EXCEPT ![t] = [pc |-> "recordLatency", operation |-> @.pc,
                                      task |-> @.task, request |-> @.request,
                                      matches |-> @.matches]]
    /\ UNCHANGED <<dbVars, stores, last, config_, submitted, lifeVars, genVars, cache_mutex_,
                   stats_mutex_, metricVars, counters_, cacheVars, statVars, poolVars, batch>>

\* recordLatency: the push_back and the release; after "match_cached" and
\* "match_total" processMatch returns its response
RecordLatencyUnlock(t) ==
    /\ frame[t].pc = "recordLatency"
    /\ mutex_' = UNLOCKED
    /\ collector_latencies_' = recordLatency(collector_latencies_, frame[t].operation)
    /\ IF frame[t].operation = "match_db_query"
       THEN /\ frame' = [frame EXCEPT ![t] = [pc |-> "stats", task |-> @.task,
                                             request |-> @.request, matches |-> @.matches]]
            /\ UNCHANGED <<last, futures>>
       ELSE Deliver(t, Response(frame[t].request, frame[t].matches, TRUE))
    /\ UNCHANGED <<dbVars, stores, config_, submitted, lifeVars, genVars, cache_mutex_,
                   stats_mutex_, gauges_, counters_, cacheVars, statVars, tasks_, batch>>

\* processMatch: std::lock_guard<std::mutex> lock(stats_mutex_)
StatsLock(t) ==
    /\ frame[t].pc = "stats"
    /\ stats_mutex_ = UNLOCKED
    /\ stats_mutex_' = Holder(t)
    /\ frame' = [frame EXCEPT ![t].pc = "push_back"]
    /\ UNCHANGED <<dbVars, stores, last, config_, submitted, lifeVars, genVars, cache_mutex_,
                   mutex_, metricVars, counters_, cacheVars, statVars, poolVars, batch>>

\* processMatch: latencies_.push_back(...), end of the guarded block
StatsUnlock(t) ==
    /\ frame[t].pc = "push_back"
    /\ latencies_' = latencies_ + 1
    /\ stats_mutex_' = UNLOCKED
    /\ frame' = [frame EXCEPT ![t].pc = "match_total"]
    /\ UNCHANGED <<dbVars, stores, last, config_, submitted, lifeVars, genVars, cache_mutex_,
                   mutex_, metricVars, counters_, cacheVars, total_requests_,
                   successful_matches_, cache_hits_, cache_misses_, poolVars, batch>>

\* MatcherService::getStats: the four counters are loaded, then
\* std::lock_guard<std::mutex> lock(stats_mutex_)
ServiceStatsLock ==
    /\ last = Idle
    /\ stats_mutex_ = UNLOCKED
    /\ stats_mutex_' = Holder(Caller)
    /\ last' = [op |-> "getServiceStats", done |-> FALSE,
                stats |-> [total_requests |-> total_requests_,
                           successful_matches |-> successful_matches_,
                           cache_hits |-> cache_hits_, cache_misses |-> cache_misses_]]
    /\ UNCHANGED <<dbVars, stores, config_, submitted, lifeVars, genVars, cache_mutex_,
                   mutex_, metricVars, counters_, cacheVars, statVars, poolVars, frame, batch>>

\* MatcherService::getStats: the latency figures from latencies_, return
ServiceStatsUnlock ==
    /\ last.op = "getServiceStats"
    /\ ~ last.done
    /\ stats_mutex_' = UNLOCKED
    /\ last' = [op |-> "getServiceStats", done |-> TRUE,
                ret |-> last.stats @@ [samples |-> latencies_]]
    /\ UNCHANGED <<dbVars, stores, config_, submitted, lifeVars, genVars, cache_mutex_,
                   mutex_, metricVars, counters_, cacheVars, statVars, poolVars, frame, batch>>

\* clearCache: std::lock_guard<std::mutex> lock(cache_mutex_)
ClearCacheLock ==
    /\ last = Idle
    /\ cache_mutex_ = UNLOCKED
    /\ cache_mutex_' = Holder(Caller)
    /\ last' = [op |-> "clearCache", done |-> FALSE]
    /\ UNCHANGED <<dbVars, stores, config_, submitted, lifeVars, genVars, stats_mutex_,
                   mutex_, metricVars, counters_, cacheVars, statVars, poolVars, frame, batch>>

\* clearCache: cache_.clear(), cache_lru_.clear(), return
ClearCacheUnlock ==
    /\ last.op = "clearCache"
    /\ ~ last.done
    /\ cache_' = <<>>
    /\ cache_lru_' = <<>>
    /\ cache_mutex_' = UNLOCKED
    /\ last' = [op |-> "clearCache", done |-> TRUE]
    /\ UNCHANGED <<dbVars, stores, config_, submitted, lifeVars, genVars, stats_mutex_,
                   mutex_, metricVars, counters_, statVars, poolVars, frame, batch>>

\* two workers and the caller, caching on: asynchronous and synchronous
\* requests beside getStats and clearCache calls of the caller
LockConfigs == { [DefaultConfig EXCEPT !.num_threads = NumWorkers, !.cache_size = 1] }

LockRequestBodies ==
    { [fingerprint |-> Fingerprint(hs, d), min_similarity |-> Ratio(1, 2), max_results |-> 1] :
        hs \in {<<0, 0>>, <<0, 1>>}, d \in Durations }

InitLock == InitStore /\ InitGenerator /\ InitMetrics /\ InitService(LockConfigs)

NextLock ==
    \/ \E cid \in IngestIds, fp \in {Fingerprint(<<0, 1>>, 3000)}, md \in IngestMetadatas :
          Ingest(cid, fp, md)
    \/ \E body \in LockRequestBodies :
          Issued < MaxLockRequests /\ Match(MatchRequest(Issued + 1, body))
    \/ \E body \in LockRequestBodies :
          Issued < MaxLockRequests /\ MatchAsync(MatchRequest(Issued + 1, body))
    \/ \E f \in DOMAIN futures : FutureGet(f)
    \/ Return
    \/ ServiceStatsLock
    \/ ServiceStatsUnlock
    \/ ClearCacheLock
    \/ ClearCacheUnlock
    \/ \E w \in Workers : WorkerDequeue(w)
    \/ \E t \in Threads : CheckCacheLock(t)
    \/ \E t \in Threads : CheckCacheUnlock(t)
    \/ \E t \in Threads : FindMatchesLock(t)
    \/ \E t \in Threads : FindMatchesUnlock(t)
    \/ \E t \in Threads : UpdateCacheLock(t)
    \/ \E t \in Threads : UpdateCacheUnlock(t)
    \/ \E t \in Threads : RecordLatencyLock(t)
    \/ \E t \in Threads : RecordLatencyUnlock(t)
    \/ \E t \in Threads : StatsLock(t)
    \/ \E t \in Threads : StatsUnlock(t)

SpecLock == InitLock /\ [][NextLock]_vars

\* ======================================================================
\* Properties of the store (specification SpecStore)
\* ======================================================================
\* a storeFingerprint step for a content_id that is already stored
ReingestStep ==
    /\ last = Idle
    /\ last'.op = "storeFingerprint"
    /\ last'.content_id \in DOMAIN content

\* the matches of content cid over all hashes of the query, without any limit
TotalMatches(fp, cid) ==
    LET RECURSIVE Sum(_)
        Sum(i) == IF i = 0 THEN 0 ELSE MatchCount(cid, fp.hash_values[i]) + Sum(i - 1)
    IN  Sum(Len(fp.hash_values))

\* C3: storing a content_id that is already stored leaves the item count
\* (total_content) and the posting count (total_fingerprints) as they were.
C3_ReingestKeepsCounts ==
    [][ReingestStep =>
          /\ BagCardinality(fingerprints') = BagCardinality(fingerprints)
          /\ Cardinality(DOMAIN content') = Cardinality(DOMAIN content)]_vars

\* C4: first write wins: storing a content_id that is already stored writes no
\* posting and changes neither the content row nor the fingerprint record.
C4_FirstWriteWins ==
    [][ReingestStep =>
          /\ fingerprints' = fingerprints
          /\ content' = content
          /\ fingerprint_metadata' = fingerprint_metadata]_vars

\* C5: every result findMatches returns has a similarity_score in [0, 1].
C5_ScoreInUnitInterval ==
    last.op = "findMatches" =>
        \A i \in 1..Len(last.ret) :
            /\ last.ret[i].similarity_score.num >= 0
            /\ last.ret[i].similarity_score.num <= last.ret[i].similarity_score.den

\* the ranking rule: a goes before b
RankedBefore(a, b) ==
    \/ RatioGT(a.similarity_score, b.similarity_score)
    \/ /\ RatioEQ(a.similarity_score, b.similarity_score)
       /\ a.matched_segments > b.matched_segments
    \/ /\ RatioEQ(a.similarity_score, b.similarity_score)
       /\ a.matched_segments = b.matched_segments
       /\ a.metadata.content_id < b.metadata.content_id

\* C6: the list findMatches returns is ordered by the ranking rule: score
\* descending, then matched_segments descending, then content_id ascending.
C6_RankingOrder ==
    last.op = "findMatches" =>
        \A i \in 1..(Len(last.ret) - 1) : RankedBefore(last.ret[i], last.ret[i + 1])

\* C7: every result findMatches returns has similarity_score >= min_similarity.
C7_FloorHonoured ==
    last.op = "findMatches" =>
        \A i \in 1..Len(last.ret) :
            RatioGE(last.ret[i].similarity_score, last.min_similarity)

\* findMatches returned results and left out a candidate that is below the floor
C7_Witness ==
    /\ last.op = "findMatches"
    /\ last.ret # <<>>
    /\ \E cid \in DOMAIN content :
          /\ TotalMatches(last.fingerprint, cid) > 0
          /\ ~ RatioGE(Similarity(last.fingerprint, cid, TotalMatches(last.fingerprint, cid)),
                       last.min_similarity)

\* C8: findMatches never returns more than max_results results.
C8_AtMostMaxResults ==
    last.op = "findMatches" => Len(last.ret) <= last.max_results

\* findMatches returned max_results results out of more that meet the floor
C8_Witness ==
    /\ last.op = "findMatches"
    /\ last.max_results >= 1
    /\ Len(last.ret) = last.max_results
    /\ Cardinality({ cid \in DOMAIN content :
            /\ TotalMatches(last.fingerprint, cid) > 0
            /\ RatioGE(Similarity(last.fingerprint, cid, TotalMatches(last.fingerprint, cid)),
                       last.min_similarity) }) > last.max_results

\* ======================================================================
\* Properties of the result cache (specification SpecCache)
\* ======================================================================
\* the keys on the LRU list
LruKeys == { cache_lru_[i] : i \in 1..Len(cache_lru_) }

\* C1: for cache_size >= 1 the cache map never holds more than cache_size
\* entries, whatever the interleaving of requests and clearCache calls.
C1_CacheSizeBounded ==
    config_.cache_size >= 1 => Cardinality(DOMAIN cache_) <= config_.cache_size

\* C2: the LRU list and the cache map have the same key set and no key is on
\* the LRU list more than once.
C2_LruListMatchesMap ==
    /\ LruKeys = DOMAIN cache_
    /\ \A i, j \in 1..Len(cache_lru_) : cache_lru_[i] = cache_lru_[j] => i = j

\* ======================================================================
\* Properties of the service (specification Spec)
\* ======================================================================
\* the store holds one item, stored once, with the fingerprint fp
StoreHoldsOnly(fp) ==
    /\ stores = 1
    /\ Cardinality(DOMAIN content) = 1
    /\ \A cid \in DOMAIN content :
          /\ fingerprint_metadata[cid].raw_hash = fp.raw_hash
          /\ fingerprint_metadata[cid].num_hashes = Len(fp.hash_values)

\* C9: self-match: with item A stored alone with the non-empty fingerprint
\* F_A, match with F_A, min_similarity 0.5 and max_results 1 returns success
\* and exactly one match, A, with similarity_score exactly 1.0.
C9_SelfMatch ==
    ( /\ last.op = "match"
      /\ last.done
      /\ last.request.fingerprint.hash_values # <<>>
      /\ last.request.min_similarity = Ratio(1, 2)
      /\ last.request.max_results = 1
      /\ StoreHoldsOnly(last.request.fingerprint) )
    => /\ last.ret.success
       /\ Len(last.ret.matches) = 1
       /\ last.ret.matches[1].metadata.content_id \in DOMAIN content
       /\ RatioEQ(last.ret.matches[1].similarity_score, Ratio(1, 1))

\* C10: every response carries the request_id of the request it answers, and
\* matchBatch returns one response per request, in the order of the requests.
C10_ResponsesAnswerRequests ==
    /\ (last.op = "match" /\ last.done) =>
          last.ret.request_id = last.request.request_id
    /\ last.op = "get" => last.ret.request_id = last.request_id
    /\ \A f \in DOMAIN futures :
          futures[f].state = "ready" => futures[f].value.request_id = futures[f].request_id
    /\ batch.phase = "running" =>
          \A i \in 1..Len(batch.responses) :
              batch.responses[i].request_id = batch.requests[i].request_id
    /\ (last.op = "matchBatch" /\ last.done) =>
          /\ Len(last.ret) = Len(last.requests)
          /\ \A i \in 1..Len(last.requests) :
                last.ret[i].request_id = last.requests[i].request_id

\* matchBatch returned the responses of two requests of which the second was
\* served first: the key of the first request is the more recent on the LRU list
C10_Witness ==
    /\ last.op = "matchBatch"
    /\ last.done
    /\ Len(last.ret) = 2
    /\ total_requests_ = 2
    /\ last.requests[1].request_id # last.requests[2].request_id
    /\ generateCacheKey(last.requests[1].fingerprint)
          # generateCacheKey(last.requests[2].fingerprint)
    /\ cache_lru_ = << generateCacheKey(last.requests[1].fingerprint),
                       generateCacheKey(last.requests[2].fingerprint) >>

\* a thread is inside processMatch
InFlight == \E t \in Threads : frame[t].pc \notin {"idle", "exited"}

\* C11: in every reachable state cache_hits + cache_misses <= total_requests;
\* with caching enabled and no request in flight the two sides are equal.
C11_CacheCountersBounded ==
    /\ cache_hits_ + cache_misses_ <= total_requests_
    /\ (config_.enable_caching /\ ~InFlight) =>
          cache_hits_ + cache_misses_ = total_requests_

\* both workers are inside processMatch: one has counted its miss, the other
\* has been counted as a request and has not reached the cache yet
C11_Witness ==
    /\ config_.enable_caching
    /\ frame[1].pc = "query"
    /\ frame[2].pc = "check"
    /\ total_requests_ = 2
    /\ cache_hits_ + cache_misses_ = 1

\* the item cid of the store reaches the request's effective floor
Matching(req, cid) ==
    /\ cid \in DOMAIN content
    /\ cid \in DOMAIN fingerprint_metadata
    /\ TotalMatches(req.fingerprint, cid) > 0
    /\ RatioGE(Similarity(req.fingerprint, cid, TotalMatches(req.fingerprint, cid)),
               EffectiveMinSimilarity(req))

\* the requests of a batch differ in their request_id only
Identical(reqs) ==
    \A i, j \in 1..Len(reqs) :
        /\ reqs[i].fingerprint = reqs[j].fingerprint
        /\ reqs[i].min_similarity = reqs[j].min_similarity
        /\ reqs[i].max_results = reqs[j].max_results

Carries(resp, cid) ==
    \E k \in 1..Len(resp.matches) : resp.matches[k].metadata.content_id = cid

\* C12: once every request handed to match, matchAsync and matchBatch has
\* completed, total_requests equals their number; and a batch of identical
\* requests against a store whose one item matches returns, for every
\* request, a response with success = true that carries the item.
C12_NoRequestLost ==
    /\ (tasks_ = <<>> /\ ~InFlight) => total_requests_ = submitted
    /\ ( /\ last.op = "matchBatch"
         /\ last.done
         /\ Identical(last.requests)
         /\ Cardinality(DOMAIN content) = 1 )
       => \A i \in 1..Len(last.requests) : \A cid \in DOMAIN content :
             Matching(last.requests[i], cid) =>
                /\ last.ret[i].success
                /\ Carries(last.ret[i], cid)

\* a batch of two identical requests has returned, both responses carry the
\* stored item, and a synchronous request came before: all three are counted
C12_Witness ==
    /\ last.op = "matchBatch"
    /\ last.done
    /\ Len(last.requests) = 2
    /\ Identical(last.requests)
    /\ \A i \in 1..2 : \E cid \in DOMAIN content :
          Matching(last.requests[i], cid) /\ Carries(last.ret[i], cid)
    /\ tasks_ = <<>>
    /\ ~InFlight
    /\ submitted = 3
    /\ total_requests_ = 3

\* ======================================================================
\* Properties of a synchronous client (specification SpecSeq)
\* ======================================================================
\* the second request of a pair of equal requests has been answered, and the
\* pair is all the service has been asked
PairAnswered ==
    /\ last.op = "match"
    /\ last.done
    /\ "first" \in DOMAIN last
    /\ total_requests_ = 2

\* C13: with caching enabled, the same request issued twice in sequence gives
\* cache_hits = 1 and cache_misses = 1 after the pair, and the two responses
\* carry the same match list.
C13_SecondRequestHits ==
    (config_.enable_caching /\ PairAnswered) =>
        /\ cache_hits_ = 1
        /\ cache_misses_ = 1
        /\ last.ret.matches = last.first.matches

\* the items of the store that share a hash with the fingerprint
Candidates(fp) == { cid \in DOMAIN content : TotalMatches(fp, cid) > 0 }

\* C15: a request with min_similarity 0.0 is answered with every candidate
\* that shares a hash with the query, up to (the effective) max_results.
C15_ZeroFloorKeepsCandidates ==
    ( /\ last.op = "match"
      /\ last.done
      /\ total_requests_ = 1
      /\ last.request.min_similarity = Ratio(0, 1) )
    => /\ last.ret.success
       /\ Len(last.ret.matches) =
             Min(EffectiveMaxResults(last.request),
                 Cardinality(Candidates(last.request.fingerprint)))

\* ======================================================================
\* Properties of cache_size = 0 (specification SpecZero)
\* ======================================================================
\* C14: with cache_size = 0 and caching enabled nothing is ever stored in the
\* cache, no request is a cache hit and no request dies in an eviction from
\* an empty LRU list.
C14_ZeroSizeDisablesCache ==
    (config_.cache_size = 0 /\ config_.enable_caching) =>
        /\ cache_ = <<>>
        /\ cache_lru_ = <<>>
        /\ cache_hits_ = 0
        /\ \A t \in Threads : frame[t].pc # "crashed"

\* ======================================================================
\* Properties of the pool (specifications SpecPool, SpecPoolFair)
\* ======================================================================
\* C16: once stop is set, no step adds a task to the queue or creates a
\* future, and every matchAsync made from then on fails with the
\* pool-stopped error.
C16_NoSubmitAfterStop ==
    [][ stop_ =>
          /\ Len(tasks_') <= Len(tasks_)
          /\ Len(futures') = Len(futures)
          /\ (last = Idle /\ last'.op = "matchAsync") =>
                ("threw" \in DOMAIN last' /\ last'.threw = POOL_STOPPED) ]_vars

\* a matchAsync has been refused while accepted tasks were still queued
C16_Witness ==
    /\ stop_
    /\ last.op = "matchAsync"
    /\ "threw" \in DOMAIN last
    /\ tasks_ # <<>>

\* C17: a matchAsync called after the pool has been stopped still returns a
\* future to the caller (which then resolves to a response with success =
\* false).
C17_StoppedPoolReturnsFuture ==
    [][ (stop_ /\ last = Idle /\ last'.op = "matchAsync") =>
          /\ "ret" \in DOMAIN last'
          /\ last'.ret \in DOMAIN futures' ]_vars

\* C18: every task accepted by submit is eventually executed and its future
\* resolved, also when shutdown is requested while it is queued or running;
\* and shutdown has returned only if the queue is empty and every worker has
\* exited (so no task is in flight).
C18_ShutdownDrains ==
    /\ \A f \in 1..MaxPoolRequests :
          (f \in DOMAIN futures) ~>
              (f \in DOMAIN futures /\ futures[f].state # "pending")
    /\ [](shutdown = "done" =>
            /\ tasks_ = <<>>
            /\ \A w \in Workers : frame[w].pc = "exited")

\* shutdown has been requested and waits: one worker has exited, the other
\* is still running an accepted task whose future is not resolved yet
C18_Witness ==
    /\ shutdown = "joining"
    /\ config_.num_threads = NumWorkers
    /\ frame[1].pc = "exited"
    /\ frame[2].pc = "finish"
    /\ futures[frame[2].task].state = "pending"

\* C19: tasks leave the queue in submission order: a task that has left the
\* queue was submitted before every task still queued, and the queue holds
\* the tasks in the order of their submission.
C19_FifoDequeue ==
    /\ \A i, j \in 1..Len(tasks_) : i < j => tasks_[i] < tasks_[j]
    /\ \A f \in DOMAIN futures :
          (\A i \in 1..Len(tasks_) : tasks_[i] # f) =>
              \A i \in 1..Len(tasks_) : f < tasks_[i]

\* two workers run the first two tasks while the third is still queued
C19_Witness ==
    /\ tasks_ = <<3>>
    /\ frame[1].pc = "query"
    /\ frame[2].pc = "query"
    /\ {frame[1].task, frame[2].task} = {1, 2}

\* ======================================================================
\* Properties of a failing engine (specification SpecFail)
\* ======================================================================
\* thread t returns from processMatch through the catch block in this step
FailureReturns(t) ==
    /\ frame[t].pc \in {"error", "insert"}
    /\ frame'[t].pc = "idle"

\* the response thread t hands over in this step
Returned_(t) == IF t = Caller THEN last'.ret ELSE futures'[frame[t].task].value

\* C20: a request during which the engine fails is answered with success =
\* false and a non-empty error_message; match_errors grows by exactly one,
\* successful_matches and the cache stay as they are.
C20_FailureIsReported ==
    [][ \A t \in Threads :
          (FailureReturns(t) \/ (frame[t].pc = "insert" /\ frame'[t].pc = "crashed")) =>
              /\ frame'[t].pc = "idle"
              /\ ~ Returned_(t).success
              /\ Returned_(t).error_message # ""
              /\ getCounter(MATCH_ERRORS)' = getCounter(MATCH_ERRORS) + 1
              /\ successful_matches_' = successful_matches_
              /\ cacheVars' = cacheVars ]_vars

\* ======================================================================
\* Properties of the latency reservoir and the cache (Spec, SpecCache, SpecSeq)

\* C21: with no request in flight, the service's latency reservoir holds one
\* sample per counted request, whichever way each request left processMatch
\* (cache hit, engine success, engine failure).
C21_LatencyPerRequest ==
    (\A t \in Threads : frame[t].pc \in {"idle", "exited"}) =>
        latencies_ = total_requests_

\* the cache key of the request thread t works on
FrameKey(t) == generateCacheKey(frame[t].request.fingerprint)

\* thread t is about to call updateCache
Updating(t) == frame[t].pc = "update" /\ frame'[t].pc = "finish"

\* C30: updateCache for a key that is already cached replaces its value and
\* makes it the most recent key; every other cached key stays cached, also
\* when the cache is full.
C30_ReinsertEvictsNothing ==
    [][ \A t \in Threads :
          (Updating(t) /\ FrameKey(t) \in DOMAIN cache_) =>
              /\ DOMAIN cache_' = DOMAIN cache_
              /\ cache_'[FrameKey(t)] = frame[t].matches
              /\ Head(cache_lru_') = FrameKey(t) ]_vars

\* C29: under one synchronous client, every insert of a key that is not
\* cached into a cache of capacity C >= 1 leaves min(size + 1, C) entries and
\* the inserted key present; so n inserts of distinct keys into the empty
\* cache leave min(n, C) entries, the last inserted key among them.
C29_DistinctInsertsFill ==
    [][ (Updating(Caller) /\ FrameKey(Caller) \notin DOMAIN cache_) =>
            /\ Cardinality(DOMAIN cache_') =
                   Min(Cardinality(DOMAIN cache_) + 1, config_.cache_size)
            /\ FrameKey(Caller) \in DOMAIN cache_'
            /\ Head(cache_lru_') = FrameKey(Caller) ]_vars

\* two requests with distinct keys have each inserted their non-empty result
\* into a cache of capacity 2
C29_Witness ==
    /\ config_.cache_size = 2
    /\ frame[Caller].pc = "finish"
    /\ Cardinality(DOMAIN cache_) = 2
    /\ Len(cache_lru_) = 2
    /\ Head(cache_lru_) = FrameKey(Caller)

\* ======================================================================
\* Properties of request validation (specification SpecAny)

\* a request the interface calls invalid: empty request_id, or a floor
\* outside [0, 1]
InvalidInput(req) ==
    \/ req.request_id = EMPTY_REQUEST_ID
    \/ RatioGT(Ratio(0, 1), req.min_similarity)
    \/ RatioGT(req.min_similarity, Ratio(1, 1))

\* C22: a request with an empty request_id or with min_similarity outside
\* [0, 1] is rejected: the engine is never invoked for it, and the response it
\* gets has success = false.
C22_InvalidRequestRejected ==
    /\ \A t \in Threads :
          (frame[t].pc \in {"update", "finish"}) => ~ InvalidInput(frame[t].request)
    /\ (last.op = "match" /\ last.done /\ InvalidInput(last.request)) =>
          ~ last.ret.success

\* ======================================================================
\* Properties of the service's destruction (specification SpecDestroy)

\* a step of a worker's task that uses the cache or the statistics: the entry
\* of processMatch (total_requests_), checkCache, updateCache, or the end of
\* processMatch (successful_matches_, latencies_)
TaskTouches(w) ==
    /\ frame'[w] # frame[w]
    /\ frame[w].pc \in {"idle", "check", "update", "finish"}
    /\ frame'[w].pc # "exited"

\* no task of the pool uses the cache or the statistics once they are destroyed
TaskNeverTouchesDropped ==
    [][ destroyed => \A w \in 1..NumWorkers : ~ TaskTouches(w) ]_vars

\* C23: the cache, the counters and the latency reservoir are destroyed only
\* once the pool has been drained and joined, and no task of the pool uses
\* them after they have been destroyed.
C23_PoolDrainedBeforeDrop ==
    /\ [](destroyed => shutdown = "done")
    /\ TaskNeverTouchesDropped

\* ======================================================================
\* Properties of the fingerprint generator (specification SpecGen)

\* C24: for every buffer with fewer than FRAME_SIZE samples, empty or not,
\* generate returns the empty fingerprint (no hashes, empty digest,
\* duration_ms = 0) and does not fail.
C24_ShortBufferGivesEmpty ==
    (last.op = "generate" /\ last.audio.num_samples < FRAME_SIZE) =>
        /\ "ret" \in DOMAIN last
        /\ last.ret = [hash_values |-> <<>>, duration_ms |-> 0, raw_hash |-> <<>>]

\* C25: the fingerprint generate returns for a buffer is one a generator
\* returns for it on its first call, whatever calls went before.
C25_NoStateAcrossCalls ==
    (last.op = "generate" /\ "ret" \in DOMAIN last) =>
        \E first \in generate(last.audio, ZeroFeatures) : last.ret = first.ret

\* C28: calculateSimilarity(F, F) is exactly 1.0 when F has a hash and
\* exactly 0.0 when it has none.
C28_SelfSimilarity ==
    (last.op = "calculateSimilarity" /\ last.fp1 = last.fp2) =>
        IF last.fp1.hash_values # <<>>
        THEN last.ret.num = last.ret.den /\ last.ret.den > 0
        ELSE last.ret.num = 0 /\ last.ret.den > 0

\* a fingerprint of two hashes, one of them with sixteen bits set, has been
\* compared with itself
C28_Witness ==
    /\ last.op = "calculateSimilarity"
    /\ last.fp1 = last.fp2
    /\ last.fp1.hash_values = <<65535, 1>>
    /\ last.ret = Ratio(64, 64)

\* ======================================================================
\* Properties of the metrics collector (specification SpecCollector)

\* C26: no operation of the collector makes the value getCounter(name)
\* returns smaller: every counter is monotonically non-decreasing.
C26_CountersNeverDecrease ==
    [][ \A metric \in MetricNames : getCounter(metric)' >= getCounter(metric) ]_vars

\* ======================================================================
\* Properties of the store's transactions (specification SpecTxn)

\* of the postings of the storeFingerprint call at hand, a query finds none
NoneVisible == fingerprints = txn.saved.fingerprints

\* ... or all
AllVisible ==
    fingerprints = txn.saved.fingerprints (+) NewPostings(txn.content_id, txn.fingerprint)

\* C27: whenever findMatches runs beside a storeFingerprint(id, F) call, the
\* table holds none or all of the call's postings, never a part of them; and
\* a storeFingerprint that fails leaves the tables as it found them.
C27_StoreIsAtomic ==
    [][ /\ (last = Idle /\ last'.op = "findMatches" /\ txn.pc # "idle") =>
              (NoneVisible \/ AllVisible)
        /\ (InTransaction /\ txn'.pc = "returned" /\ ~ txn'.ret) =>
              /\ fingerprints' = txn.saved.fingerprints
              /\ content' = txn.saved.content
              /\ fingerprint_metadata' = txn.saved.fingerprint_metadata ]_vars

\* a query has run after a storeFingerprint call that failed with one of its
\* two postings inserted, beside an item stored before
C27_Witness ==
    /\ last.op = "findMatches"
    /\ txn.pc = "returned"
    /\ ~ txn.ret
    /\ txn.next = 2
    /\ Len(txn.fingerprint.hash_values) = 2
    /\ txn.saved.fingerprints # EmptyBag
    /\ NoneVisible

\* ======================================================================
\* Properties of the eviction order (specification SpecCache)

\* the list without the later nodes of a key that is on it more than once
RECURSIVE KeepFirst(_)
KeepFirst(lst) ==
    IF lst = <<>> THEN <<>>
    ELSE <<Head(lst)>> \o KeepFirst(ListRemove(Tail(lst), Head(lst)))

\* The cached keys in the order of their latest use, most recent first: a hit
\* and an insert both put a node of the key at the front of the LRU list, so
\* the first node of a key is its latest use.
LatestUseOrder == SelectSeq(KeepFirst(cache_lru_), LAMBDA k : k \in DOMAIN cache_)

\* thread t is served from the cache
Hitting(t) == frame[t].pc = "check" /\ FrameKey(t) \in DOMAIN cache_ /\ frame'[t] = NoFrame

\* thread t calls updateCache on a full cache: lru_key is popped and erased
Evicting(t) ==
    /\ Updating(t)
    /\ Cardinality(DOMAIN cache_) >= config_.cache_size
    /\ cache_lru_ # <<>>

\* C31: a cache hit makes its key the most recent one, and the key an insert
\* into a full cache evicts is the cached key whose latest use (insert or
\* hit) is the oldest.
C31_EvictsLeastRecentlyUsed ==
    [][ \A t \in Threads :
          /\ Hitting(t) => Head(cache_lru_') = FrameKey(t)
          /\ Evicting(t) =>
                /\ LatestUseOrder # <<>>
                /\ cache_lru_[Len(cache_lru_)] = LatestUseOrder[Len(LatestUseOrder)] ]_vars

\* ======================================================================
\* Properties of the responses of one synchronous client (specification SpecSeq)

\* C32: a successful response holds at most the effective max_results of its
\* own request, each match with a score of at least the request's effective
\* min_similarity, also when it is served from a cache entry that an earlier
\* request with the same fingerprint created.
C32_ResponseHonoursOwnRequest ==
    (last.op = "match" /\ last.done /\ last.ret.success) =>
        /\ Len(last.ret.matches) <= EffectiveMaxResults(last.request)
        /\ \A i \in 1..Len(last.ret.matches) :
              RatioGE(last.ret.matches[i].similarity_score,
                      EffectiveMinSimilarity(last.request))

\* ======================================================================
\* Properties of the ranking over the whole store (specification SpecTopK)

\* candidate_matches as the complete posting lists give it: every stored item
\* with all its matches over the hashes of the query
FullCandidateMatches(fp) == [c \in ContentIds |-> TotalMatches(fp, c)]

\* the first max_results entries of the rankings of all stored items whose
\* score, taken from the full match count, is at least min_similarity
TopK(fp, min_similarity, max_results) ==
    { Truncate(p, max_results) :
        p \in SortOutcomes(ScoreCandidates(fp, min_similarity, FullCandidateMatches(fp), 1)) }

\* C33: findMatches returns the first max_results entries of a ranking of all
\* stored items that qualify by their full match count; the per-hash limit
\* of 2 * max_results rows omits no such item and lowers no score.
C33_TrueTopK ==
    last.op = "findMatches" =>
        last.ret \in TopK(last.fingerprint, last.min_similarity, last.max_results)

\* ======================================================================
\* Properties of the cache over a failing engine (specification SpecFail)

\* thread t goes on to updateCache with what findMatches has just returned
\* for its request
EngineReturned(t) ==
    /\ frame[t].pc = "query"
    /\ frame'[t].matches \in findMatches(frame[t].request.fingerprint,
                                         EffectiveMinSimilarity(frame[t].request),
                                         EffectiveMaxResults(frame[t].request))

Handed(t) ==
    IF t = Caller THEN last'.ret ELSE futures'[frame[t].task].value

\* C35: a request that finds its cache key in the cache (caching enabled) is
\* answered from the cache alone: success = true, the matches are the cached
\* list, and processMatch returns without calling findMatches; so hits are
\* served also while the engine fails its queries.
C35_HitServedFromCache ==
    [][ \A t \in Threads :
          ( /\ frame[t].pc = "check"
            /\ FrameKey(t) \in DOMAIN cache_
            /\ frame'[t] # frame[t] ) =>
              /\ frame'[t] = NoFrame
              /\ Handed(t).success
              /\ Handed(t).matches = cache_[FrameKey(t)]
              /\ Handed(t).request_id = frame[t].request.request_id
              /\ cache_hits_' = cache_hits_ + 1
              /\ UNCHANGED <<content, fingerprints, fingerprint_metadata, cache_>> ]_vars

\* one synchronous client: its first request was answered by the engine and
\* cached, its second failed in the engine, its third was served from the cache
C35_Witness ==
    /\ futures = <<>>
    /\ last.op = "match"
    /\ last.done
    /\ last.request.request_id = 3
    /\ last.ret.success
    /\ last.ret.matches # <<>>
    /\ cache_hits_ = 1
    /\ successful_matches_ = 1
    /\ getCounter(MATCH_ERRORS) = 1

\* ======================================================================
\* Properties of the service's locks (specification SpecLock)

Mutexes == {"cache_mutex_", "stats_mutex_", "mutex_", "db_mutex_"}

HolderOf(m) ==
    CASE m = "cache_mutex_" -> cache_mutex_
      [] m = "stats_mutex_" -> stats_mutex_
      [] m = "mutex_" -> mutex_
      [] m = "db_mutex_" -> db_mutex_

\* the mutexes thread t holds
Holds(t) == { m \in Mutexes : HolderOf(m) = Holder(t) }

\* the mutex thread t is about to take, "none" when its next step takes none
WaitsFor(t) ==
    CASE frame[t].pc \in {"check", "update"} -> "cache_mutex_"
      [] frame[t].pc = "query" -> "db_mutex_"
      [] frame[t].pc = "stats" -> "stats_mutex_"
      [] frame[t].pc \in TimedOperations -> "mutex_"
      [] OTHER -> "none"

\* thread t is inside db_manager_->findMatches
InEngine(t) == frame[t].pc \in {"query", "findMatches"}

\* C36: a thread that holds cache_mutex_ or stats_mutex_ is not calling
\* findMatches, holds no other mutex and is not about to take one; so a
\* thread that waits for a mutex waits for a holder that is itself not
\* waiting, and requests, getStats and clearCache cannot deadlock on them.
C36_LockDiscipline ==
    /\ \A t \in Threads :
          (cache_mutex_ = Holder(t) \/ stats_mutex_ = Holder(t)) =>
              /\ ~ InEngine(t)
              /\ Cardinality(Holds(t)) = 1
              /\ WaitsFor(t) = "none"
    /\ \A t, u \in Threads :
          (WaitsFor(t) # "none" /\ HolderOf(WaitsFor(t)) = Holder(u)) => WaitsFor(u) = "none"

\* one worker is inside updateCache or checkCache, the other inside
\* findMatches, the caller inside getStats: three mutexes held at once and a
\* request already served
C36_Witness ==
    /\ cache_mutex_ = Holder(1)
    /\ db_mutex_ = Holder(2)
    /\ stats_mutex_ = Holder(Caller)
    /\ last.op = "getServiceStats"
    /\ latencies_ = 1

\* ======================================================================
\* Properties of the collector's report (specification SpecCollectorFair)

\* C37: every getAllMetrics call returns a report, whatever has been
\* recorded before it, also when a latency sample has been recorded.
C37_GetAllMetricsReturns ==
    (last.op = "getAllMetrics") ~>
        (last.op = "getAllMetrics" /\ last.done /\ "ret" \in DOMAIN last)

\* ======================================================================
\* Properties of the workers under failing requests (SpecFail)

\* the workers that still run their loop
LiveWorkers == {w \in Workers : frame[w].pc # "crashed"}

\* C38: a failing task never kills a worker: whatever requests have failed,
\* every one of the num_threads workers is still running its loop (idle or
\* inside a task), so the number of live workers stays num_threads.
C38_FailureKeepsWorkers == Cardinality(LiveWorkers) = config_.num_threads

\* ======================================================================
\* Properties of the store's reads beside a write (SpecReads)

\* the public reads of the store
StoreReads == {"findMatches", "getContentById", "getStats"}

\* C39: no public read of the store (findMatches, getContentById, getStats)
\* executes while a storeFingerprint call is between taking and releasing
\* db_mutex_.
C39_ReadsSerializedWithWrites ==
    [][ (last = Idle /\ last' # Idle /\ last'.op \in StoreReads) => DbMutexFree ]_vars

\* ======================================================================
\* Properties of the counters under concurrent increments (SpecFail)

\* every thread is outside processMatch and no task waits in the queue
Quiescent == tasks_ = <<>> /\ \A t \in Threads : frame[t].pc = "idle"

\* the incrementCounter("match_errors") calls made so far, once the service
\* is quiescent: one per request that neither hit the cache nor got a result
\* from the engine
ErrorIncrements == total_requests_ - successful_matches_ - cache_hits_

\* C40: after any number of incrementCounter("match_errors") calls issued by
\* the caller's thread and the workers, the first ones creating the entry
\* included, getCounter("match_errors") equals the number of calls.
C40_NoIncrementLost == Quiescent => getCounter(MATCH_ERRORS) = ErrorIncrements

====
